---- MODULE Spec2Model ----
(***************************************************************************)
(* TextFlow: the balanced text-storage tree (AVLTree), the editor core     *)
(* (TextEditor) and the literal search algorithms (SearchReplace).         *)
(*                                                                         *)
(* Strings are sequences of one-character strings.  A tree object is a     *)
(* record [heap, root_, undoStack_, redoStack_]: heap is the sequence of   *)
(* all AVLNode objects ever allocated (a shared_ptr is an index into it,   *)
(* NULL is nullptr), so that two shared_ptr to the same node see the same  *)
(* in-place changes.  A std::stack is a sequence whose top is its last     *)
(* element.                                                                *)
(***************************************************************************)
EXTENDS Integers, Sequences, FiniteSets, TLC

VARIABLES
    tree,           \* SpecTree: the AVLTree object
    lastCall,       \* SpecTree: the last call and whether it returned true
    callInfo,       \* SpecTreeObserved: arguments and results of the last call
    undoTexts,      \* SpecTreeObserved: text of each undoStack_ entry when pushed
    redoTexts,      \* SpecTreeObserved: text of each redoStack_ entry when pushed
    trail,          \* SpecTreeObserved: progress of an insert / undo / redo sequence
    search,         \* SpecSearch: a text, a pattern and what each algorithm returned
    editor,         \* SpecEditor: the fields of the TextEditor object
    edCall,         \* SpecEditor: the last call, its arguments and how it ended
    codec,          \* SpecCodec: a text and what the compression codecs made of it
    autosave,       \* SpecAutoSave: the auto-save flags, the worker thread and the files
    nlp,            \* SpecNlp: an NLPClient, an NLPIntegrationManager and their calls
    shell           \* SpecShell: an interactive shell, its files and its last loop turn

treeVars == <<tree, lastCall, callInfo, undoTexts, redoTexts, trail>>

searchVars == <<search>>

editorVars == <<editor, edCall>>

codecVars == <<codec>>

autosaveVars == <<autosave>>

nlpVars == <<nlp>>

shellVars == <<shell>>

vars == <<treeVars, searchVars, editorVars, codecVars, autosaveVars, nlpVars, shellVars>>

----------------------------------------------------------------------------
(* Bounds *)

TreeMaxSize == 3        \* longest document text in SpecTree
TreeMaxNodes == 3       \* most fragments (AVLNode objects) in SpecTree
TreeMaxHist == 2        \* deepest undo stack in SpecTree
SearchMaxText == 4      \* longest text in SpecSearch
SearchMaxReplacement == 1   \* longest replacement given to replaceAll
SearchMaxPattern == 3   \* longest pattern in SpecSearch
WordMaxText == 4        \* longest text in SpecWords
WordMaxPattern == 2     \* longest pattern in SpecWords
EdMaxDocs == 2          \* most open documents in SpecEditor
EdMaxSize == 1          \* longest document text an insert may produce in SpecEditor
EdMaxNodes == 1         \* most fragments an insert may start from in SpecEditor
EdMaxHist == 0          \* deepest undo stack an edit may start from in SpecEditor
DocsMax == 3            \* most open documents in SpecDocs
EdMaxInsert == 1        \* longest text, pattern or replacement given to the editor
MaxCallDepth == 4       \* nested calls the stack holds before it overflows

\* the texts given to insert and the patterns given to findAll in SpecTree
TreeTexts == {<<"a">>, <<"b">>}

TreePatterns == {<<>>, <<"a">>, <<"a", "a">>, <<"a", "b">>}

SearchAlphabet == {"a", "b"}

EdAlphabet == {"a", "\n"}

----------------------------------------------------------------------------
(* Helpers *)

NULL == 0

Max(a, b) == IF a >= b THEN a ELSE b

Min(a, b) == IF a <= b THEN a ELSE b

\* std::string::substr(pos) for 0 <= pos <= length
SubstrFrom(s, pos) == SubSeq(s, pos + 1, Len(s))

\* std::string::substr(pos, n) for 0 <= pos <= length, n clipped to the end
Substr(s, pos, n) == SubSeq(s, pos + 1, Min(Len(s), pos + n))

\* all strings over alphabet A of length 0..n
StringsUpTo(A, n) == UNION {[1..k -> A] : k \in 0..n}

Reverse(s) == [i \in 1..Len(s) |-> s[Len(s) + 1 - i]]

\* does pattern p occur in s at 0-based offset i
OccursAt(s, p, i) ==
    /\ i >= 0
    /\ i + Len(p) <= Len(s)
    /\ \A k \in 1..Len(p) : s[i + k] = p[k]

\* std::string::find(p, pos): smallest offset >= pos where p occurs, or -1 (npos)
StrFind(s, p, pos) ==
    LET hits == {i \in pos..(Len(s) - Len(p)) : OccursAt(s, p, i)}
    IN IF hits = {} THEN -1 ELSE CHOOSE i \in hits : \A k \in hits : i <= k

----------------------------------------------------------------------------
(* AVLNode and the private helpers of AVLTree *)

AVLNode(d) == [data |-> d, height |-> 1, size |-> Len(d), left |-> NULL, right |-> NULL]

getHeight(h, node) == IF node # NULL THEN h[node].height ELSE 0

getSizeOf(h, node) == IF node # NULL THEN h[node].size ELSE 0

getBalance(h, node) ==
    IF node # NULL THEN getHeight(h, h[node].left) - getHeight(h, h[node].right) ELSE 0

updateHeight(h, node) ==
    IF node # NULL
    THEN [h EXCEPT ![node].height =
            1 + Max(getHeight(h, h[node].left), getHeight(h, h[node].right))]
    ELSE h

updateSize(h, node) ==
    IF node # NULL
    THEN [h EXCEPT ![node].size =
            Len(h[node].data) + getSizeOf(h, h[node].left) + getSizeOf(h, h[node].right)]
    ELSE h

\* rotateRight that forgets updateSize(y)
rotateRightStaleSize(h, y) ==
    LET x == h[y].left
        T2 == h[x].right
        h1 == [h EXCEPT ![x].right = y, ![y].left = T2]
        h2 == updateHeight(h1, y)
        h3 == updateSize(updateHeight(h2, x), x)
    IN [h |-> h3, r |-> x]

\* both return [h |-> heap after the rotation, r |-> new subtree root]
rotateRight(h, y) ==
    LET x == h[y].left
        T2 == h[x].right
        h1 == [h EXCEPT ![x].right = y, ![y].left = T2]
        h2 == updateSize(updateHeight(h1, y), y)
        h3 == updateSize(updateHeight(h2, x), x)
    IN [h |-> h3, r |-> x]

rotateLeft(h, x) ==
    LET y == h[x].right
        T2 == h[y].left
        h1 == [h EXCEPT ![y].left = x, ![x].right = T2]
        h2 == updateSize(updateHeight(h1, x), x)
        h3 == updateSize(updateHeight(h2, y), y)
    IN [h |-> h3, r |-> y]

balance(h0, node) ==
    IF node = NULL THEN [h |-> h0, r |-> node]
    ELSE
    LET h == updateSize(updateHeight(h0, node), node)
        bal == getBalance(h, node)
    IN  IF bal > 1 /\ getBalance(h, h[node].left) >= 0 THEN rotateRight(h, node)
        ELSE IF bal < -1 /\ getBalance(h, h[node].right) <= 0 THEN rotateLeft(h, node)
        ELSE IF bal > 1 /\ getBalance(h, h[node].left) < 0 THEN
            LET l == rotateLeft(h, h[node].left)
            IN rotateRight([l.h EXCEPT ![node].left = l.r], node)
        ELSE IF bal < -1 /\ getBalance(h, h[node].right) > 0 THEN
            LET rr == rotateRight(h, h[node].right)
            IN rotateLeft([rr.h EXCEPT ![node].right = rr.r], node)
        ELSE [h |-> h, r |-> node]

RECURSIVE insertHelper(_, _, _, _)
insertHelper(h, node, position, text) ==
    IF node = NULL THEN [h |-> Append(h, AVLNode(text)), r |-> Len(h) + 1]
    ELSE
    LET leftSize == getSizeOf(h, h[node].left)
        data == h[node].data
    IN  IF position <= leftSize THEN
            LET sub == insertHelper(h, h[node].left, position, text)
            IN balance([sub.h EXCEPT ![node].left = sub.r], node)
        ELSE IF position <= leftSize + Len(data) THEN
            LET insertPos == position - leftSize
                leftPart == Substr(data, 0, insertPos)
                rightPart == SubstrFrom(data, insertPos)
                h1 == [h EXCEPT ![node].data = leftPart \o text \o rightPart]
            IN balance(updateSize(h1, node), node)
        ELSE
            LET sub == insertHelper(h, h[node].right,
                                    position - leftSize - Len(data), text)
            IN balance([sub.h EXCEPT ![node].right = sub.r], node)

RECURSIVE eraseHelper(_, _, _, _)
eraseHelper(h, node, position, length) ==
    IF node = NULL THEN [h |-> h, r |-> node]
    ELSE
    LET leftSize == getSizeOf(h, h[node].left)
        nodeDataLength == Len(h[node].data)
    IN  IF position < leftSize THEN
            LET sub == eraseHelper(h, h[node].left, position, length)
            IN balance([sub.h EXCEPT ![node].left = sub.r], node)
        ELSE IF position < leftSize + nodeDataLength THEN
            LET eraseStart == position - leftSize
                eraseEnd == Min(eraseStart + length, nodeDataLength)
                leftPart == Substr(h[node].data, 0, eraseStart)
                rightPart == SubstrFrom(h[node].data, eraseEnd)
                h1 == updateSize([h EXCEPT ![node].data = leftPart \o rightPart], node)
                remainingLength == length - (eraseEnd - eraseStart)
            IN  IF remainingLength > 0 THEN
                    LET sub == eraseHelper(h1, h1[node].right, 0, remainingLength)
                    IN balance([sub.h EXCEPT ![node].right = sub.r], node)
                ELSE balance(h1, node)
        ELSE
            LET sub == eraseHelper(h, h[node].right,
                                   position - leftSize - nodeDataLength, length)
            IN balance([sub.h EXCEPT ![node].right = sub.r], node)

\* acc = [result, currentPos], the two reference parameters of the C++ function
RECURSIVE collectText(_, _, _, _, _)
collectText(h, node, start, length, acc) ==
    IF node = NULL THEN acc
    ELSE
    LET a1 == collectText(h, h[node].left, start, length, acc)
        data == h[node].data
        currentPos == a1.currentPos
        nodeStart == Max(0, start - currentPos)
        nodeEnd == Min(Len(data), start + length - currentPos)
        result ==
            IF /\ currentPos < start + length
               /\ currentPos + Len(data) > start
               /\ nodeStart < nodeEnd
            THEN a1.result \o Substr(data, nodeStart, nodeEnd - nodeStart)
            ELSE a1.result
    IN collectText(h, h[node].right, start, length,
                   [result |-> result, currentPos |-> currentPos + Len(data)])

\* the while loop of searchInNode over one fragment, from offset pos.  The
\* loop ends when find returns npos.  When the loop variable does not advance
\* (pattern.length() = 0) the same find is repeated for ever, every round
\* pushing one more result: hung.
RECURSIVE scanFragment(_, _, _, _, _)
scanFragment(data, pattern, pos, currentPos, results) ==
    LET found == StrFind(data, pattern, pos)
    IN  IF found = -1 THEN [results |-> results, hung |-> FALSE]
        ELSE IF found + Len(pattern) = pos
             THEN [results |-> Append(results, currentPos + found), hung |-> TRUE]
        ELSE scanFragment(data, pattern, found + Len(pattern), currentPos,
                          Append(results, currentPos + found))

\* acc = [results, currentPos, hung]
RECURSIVE searchInNode(_, _, _, _)
searchInNode(h, node, pattern, acc) ==
    IF node = NULL \/ acc.hung THEN acc
    ELSE
    LET a1 == searchInNode(h, h[node].left, pattern, acc)
        scan == scanFragment(h[node].data, pattern, 0, a1.currentPos, a1.results)
    IN  IF a1.hung THEN a1
        ELSE IF scan.hung
             THEN [results |-> scan.results, currentPos |-> a1.currentPos, hung |-> TRUE]
        ELSE searchInNode(h, h[node].right, pattern,
                          [results |-> scan.results,
                           currentPos |-> a1.currentPos + Len(h[node].data),
                           hung |-> FALSE])

----------------------------------------------------------------------------
(* The public operations of AVLTree, on a tree object t *)

EmptyTree == [heap |-> <<>>, root_ |-> NULL, undoStack_ |-> <<>>, redoStack_ |-> <<>>]

getSize(t) == getSizeOf(t.heap, t.root_)

getText(t, start, length) ==
    collectText(t.heap, t.root_, start, length, [result |-> <<>>, currentPos |-> 0]).result

\* the whole document: getText(0, getSize())
TextOf(t) == getText(t, 0, getSize(t))

\* text and size of the tree a stacked root pointer designates now
TextAtRoot(t, r) == TextOf([t EXCEPT !.root_ = r])

HistoryLimit == 50

HistoryKeep == 25

\* the trim loop of saveState: pop into temp until HistoryKeep entries are left
RECURSIVE trimInto(_, _)
trimInto(stack, temp) ==
    IF Len(stack) > HistoryKeep
    THEN trimInto(SubSeq(stack, 1, Len(stack) - 1), Append(temp, stack[Len(stack)]))
    ELSE temp

\* saveState that leaves the redo stack as it is
saveStateKeepsRedo(t) ==
    LET pushed == IF t.root_ # NULL THEN Append(t.undoStack_, t.root_) ELSE t.undoStack_
        trimmed == IF t.root_ # NULL /\ Len(pushed) > HistoryLimit
                   THEN trimInto(pushed, <<>>) ELSE pushed
    IN [t EXCEPT !.undoStack_ = trimmed]
saveState(t) ==
    LET pushed == IF t.root_ # NULL THEN Append(t.undoStack_, t.root_) ELSE t.undoStack_
        trimmed == IF t.root_ # NULL /\ Len(pushed) > HistoryLimit
                   THEN trimInto(pushed, <<>>) ELSE pushed
    IN [t EXCEPT !.undoStack_ = trimmed, !.redoStack_ = <<>>]

insert(t, position, text) ==
    IF text = <<>> THEN t
    ELSE LET rooted(s, res) == [s EXCEPT !.heap = res.h, !.root_ = res.r]
             inserted(s) == rooted(s, insertHelper(s.heap, s.root_, position, text))
         IN inserted(saveState(t))

erase(t, position, length) ==
    IF length <= 0 THEN t
    ELSE LET rooted(s, res) == [s EXCEPT !.heap = res.h, !.root_ = res.r]
             erased(s) == rooted(s, eraseHelper(s.heap, s.root_, position, length))
         IN erased(saveState(t))

\* undo and redo return [t |-> tree after the call, ok |-> the bool returned]
undo(t) ==
    IF t.undoStack_ = <<>> THEN [t |-> t, ok |-> FALSE]
    ELSE [t |-> [t EXCEPT !.redoStack_ = Append(t.redoStack_, t.root_),
                          !.root_ = t.undoStack_[Len(t.undoStack_)],
                          !.undoStack_ = SubSeq(t.undoStack_, 1, Len(t.undoStack_) - 1)],
          ok |-> TRUE]

redo(t) ==
    IF t.redoStack_ = <<>> THEN [t |-> t, ok |-> FALSE]
    ELSE [t |-> [t EXCEPT !.undoStack_ = Append(t.undoStack_, t.root_),
                          !.root_ = t.redoStack_[Len(t.redoStack_)],
                          !.redoStack_ = SubSeq(t.redoStack_, 1, Len(t.redoStack_) - 1)],
          ok |-> TRUE]

RECURSIVE validateHelper(_, _)
validateHelper(h, node) ==
    IF node = NULL THEN TRUE
    ELSE
    LET bal == getBalance(h, node)
        expectedSize == Len(h[node].data) + getSizeOf(h, h[node].left)
                                          + getSizeOf(h, h[node].right)
    IN  IF bal < -1 \/ bal > 1 THEN FALSE
        ELSE IF h[node].size # expectedSize THEN FALSE
        ELSE validateHelper(h, h[node].left) /\ validateHelper(h, h[node].right)

validate(t) == validateHelper(t.heap, t.root_)

\* [results |-> the vector built, hung |-> TRUE when the call never returns]
findAll(t, pattern) ==
    LET returned(res) == [results |-> res.results, hung |-> res.hung]
    IN returned(searchInNode(t.heap, t.root_, pattern,
                             [results |-> <<>>, currentPos |-> 0, hung |-> FALSE]))

----------------------------------------------------------------------------
(* The flat reference string *)

RefInsert(s, position, text) == SubSeq(s, 1, position) \o text \o SubSeq(s, position + 1, Len(s))

RefErase(s, position, length) == SubSeq(s, 1, position) \o SubSeq(s, position + length + 1, Len(s))

----------------------------------------------------------------------------
(* The line and cursor queries of AVLTree *)

Newline == "\n"

\* std::count(text.begin(), text.end(), '\n')
CountNewlines(text) == Cardinality({k \in 1..Len(text) : text[k] = Newline})

treeMoveCursor(t, currentPos, offset) == Max(0, Min(currentPos + offset, getSize(t)))

\* text.rfind('\n') over the text before position; 0 when there is none
getLineStart(t, position) ==
    LET lastOf(nl) == IF nl = {} THEN 0 ELSE CHOOSE k \in nl : \A m \in nl : m <= k
        newlines(text) == {k \in 1..Len(text) : text[k] = Newline}
    IN lastOf(newlines(getText(t, 0, position)))

\* text.find('\n') over the text from position; the size when there is none
getLineEnd(t, position) ==
    LET firstOf(nl) == IF nl = {} THEN getSize(t)
                       ELSE position + (CHOOSE k \in nl : \A m \in nl : k <= m) - 1
        newlines(text) == {k \in 1..Len(text) : text[k] = Newline}
    IN firstOf(newlines(getText(t, position, getSize(t) - position)))

getLineNumber(t, position) == CountNewlines(getText(t, 0, position)) + 1

getColumnNumber(t, position) == position - getLineStart(t, position)

\* "NUL" stands for the '\0' returned outside the text
getChar(t, position) ==
    IF position < 0 \/ position >= getSize(t) THEN "NUL"
    ELSE LET first(text) == IF text = <<>> THEN "NUL" ELSE text[1]
         IN first(getText(t, position, 1))

\* loadFromFile on a file that opens, with the content read from it
loadFromFile(content) ==
    IF content # <<>> THEN insert(EmptyTree, 0, content) ELSE EmptyTree

\* findAllRegex for a pattern made of ordinary characters only (at least one):
\* the regex iterator yields the non-overlapping matches of each fragment
findAllRegex(t, pattern) == findAll(t, pattern).results

----------------------------------------------------------------------------
(* SearchReplace: the three literal search algorithms *)

\* the value of a char in arithmetic (ASCII)
Ord(c) ==
    CASE c = "a" -> 97
      [] c = "b" -> 98
      [] c = "c" -> 99
      [] c = "A" -> 65
      [] c = "B" -> 66
      [] c = "_" -> 95
      [] c = " " -> 32
      [] c = "\n" -> 10
      [] c = "NUL" -> 0

\* lps, the vector of computeLPSArray, is 1-based here: lps[k + 1] is C++ lps[k]
RECURSIVE lpsLoop(_, _, _, _)
lpsLoop(pattern, i, len, lps) ==
    IF i < Len(pattern) THEN
        IF pattern[i + 1] = pattern[len + 1]
        THEN lpsLoop(pattern, i + 1, len + 1, [lps EXCEPT ![i + 1] = len + 1])
        ELSE IF len # 0
             THEN lpsLoop(pattern, i, lps[len], lps)
             ELSE lpsLoop(pattern, i + 1, len, [lps EXCEPT ![i + 1] = 0])
    ELSE lps

\* computeLPSArray that leaves every entry at its initial 0
computeLPSArrayZero(pattern) == [k \in 1..Len(pattern) |-> 0]

computeLPSArray(pattern) == lpsLoop(pattern, 1, 0, [k \in 1..Len(pattern) |-> 0])

\* one round of the while loop of kmpSearch for each call
RECURSIVE kmpLoop(_, _, _, _, _, _)
kmpLoop(text, pattern, lps, i0, j0, result) ==
    IF i0 < Len(text) THEN
        LET matched == pattern[j0 + 1] = text[i0 + 1]
            i == IF matched THEN i0 + 1 ELSE i0
            j == IF matched THEN j0 + 1 ELSE j0
        IN  IF j = Len(pattern)
            THEN kmpLoop(text, pattern, lps, i, lps[j], Append(result, i - j))
            ELSE IF i < Len(text) /\ pattern[j + 1] # text[i + 1]
                 THEN IF j # 0
                      THEN kmpLoop(text, pattern, lps, i, lps[j], result)
                      ELSE kmpLoop(text, pattern, lps, i + 1, j, result)
            ELSE kmpLoop(text, pattern, lps, i, j, result)
    ELSE result

kmpSearch(text, pattern) ==
    IF pattern = <<>> \/ Len(text) < Len(pattern) THEN <<>>
    ELSE kmpLoop(text, pattern, computeLPSArray(pattern), 0, 0, <<>>)

\* the unordered_map of buildBadCharTable read with operator[]: a char that
\* was never stored reads as 0; a char stored several times keeps the last store
buildBadCharTable(pattern) ==
    [c \in {pattern[k] : k \in 1..Len(pattern)} \cup {"other"} |->
        LET idx == {i \in 0..(Len(pattern) - 2) : pattern[i + 1] = c}
        IN IF idx = {} THEN 0
           ELSE Len(pattern) - 1 - (CHOOSE i \in idx : \A k \in idx : k <= i)]

badCharAt(table, c) == IF c \in DOMAIN table THEN table[c] ELSE table["other"]

buildGoodSuffixTable(pattern) == [i \in 1..Len(pattern) |-> Len(pattern)]

\* the inner while loop of boyerMooreSearch: the j at which it stops
RECURSIVE bmCompare(_, _, _, _)
bmCompare(text, pattern, shift, j) ==
    IF j >= 0 /\ pattern[j + 1] = text[shift + j + 1]
    THEN bmCompare(text, pattern, shift, j - 1)
    ELSE j

RECURSIVE bmLoop(_, _, _, _, _, _)
bmLoop(text, pattern, badCharTable, goodSuffixTable, shift, result) ==
    IF shift <= Len(text) - Len(pattern) THEN
        LET j == bmCompare(text, pattern, shift, Len(pattern) - 1)
        IN  IF j < 0
            THEN bmLoop(text, pattern, badCharTable, goodSuffixTable,
                        shift + (IF shift + Len(pattern) < Len(text)
                                 THEN Len(pattern)
                                      - badCharAt(badCharTable, text[shift + Len(pattern) + 1])
                                 ELSE 1),
                        Append(result, shift))
            ELSE bmLoop(text, pattern, badCharTable, goodSuffixTable,
                        shift + Max(goodSuffixTable[j + 1],
                                    j - badCharAt(badCharTable, text[shift + j + 1])),
                        result)
    ELSE result

boyerMooreSearch(text, pattern) ==
    IF pattern = <<>> \/ Len(text) < Len(pattern) THEN <<>>
    ELSE bmLoop(text, pattern, buildBadCharTable(pattern),
                buildGoodSuffixTable(pattern), 0, <<>>)

HashBase == 256

HashMod == 1000000007

\* (a * b) % m for 0 <= a, b and m < 2^30, by doubling, so that no
\* intermediate value leaves 32 bits (the C++ code computes in long long)
RECURSIVE MulMod(_, _, _)
MulMod(a, b, m) ==
    IF b = 0 THEN 0
    ELSE LET half == MulMod(a, b \div 2, m)
             dbl == (half + half) % m
         IN IF b % 2 = 1 THEN (dbl + (a % m)) % m ELSE dbl

RECURSIVE hashLoop(_, _, _, _, _, _, _)
hashLoop(str, start, i, hash, power, base, mod) ==
    IF i >= start
    THEN hashLoop(str, start, i - 1,
                  (hash + MulMod(Ord(str[i + 1]), power, mod)) % mod,
                  MulMod(power, base, mod), base, mod)
    ELSE hash

computeHash(str, start, length, base, mod) ==
    hashLoop(str, start, start + length - 1, 0, 1, base, mod)

RECURSIVE powerLoop(_, _, _, _)
powerLoop(result, base, exp, mod) ==
    IF exp > 0
    THEN powerLoop(IF exp % 2 = 1 THEN MulMod(result, base, mod) ELSE result,
                   MulMod(base, base, mod), exp \div 2, mod)
    ELSE result

computePower(base, exp, mod) == powerLoop(1, base % mod, exp, mod)

\* the window hash after the window moves from offset i to i + 1; the C++
\* remainder is taken to the range 0..mod-1 by the added mod
rollHash(text, i, patternLen, textHash, power) ==
    LET dropped == MulMod(Ord(text[i + 1]), power, HashMod)
        kept == (textHash - dropped) % HashMod
    IN (MulMod(HashBase, kept, HashMod) + Ord(text[i + patternLen + 1])) % HashMod

RECURSIVE rkLoop(_, _, _, _, _, _, _)
rkLoop(text, pattern, patternHash, power, i, textHash, result) ==
    IF i <= Len(text) - Len(pattern) THEN
        LET match == /\ patternHash = textHash
                     /\ \A j \in 0..(Len(pattern) - 1) : text[i + j + 1] = pattern[j + 1]
            result1 == IF match THEN Append(result, i) ELSE result
            textHash1 == IF i < Len(text) - Len(pattern)
                         THEN rollHash(text, i, Len(pattern), textHash, power)
                         ELSE textHash
        IN rkLoop(text, pattern, patternHash, power, i + 1, textHash1, result1)
    ELSE result

rabinKarpSearch(text, pattern) ==
    IF pattern = <<>> \/ Len(text) < Len(pattern) THEN <<>>
    ELSE rkLoop(text, pattern,
                computeHash(pattern, 0, Len(pattern), HashBase, HashMod),
                computePower(HashBase, Len(pattern) - 1, HashMod),
                0,
                computeHash(text, 0, Len(pattern), HashBase, HashMod),
                <<>>)

\* std::isalnum(c) || c == '_'
IsWordChar(c) == c \in {"a", "b", "c", "A", "B", "_"}

\* SearchReplace::isWordBoundary
isWordBoundary(text, position) ==
    IF position = 0 \/ position = Len(text) THEN TRUE
    ELSE ~IsWordChar(text[position]) \/ ~IsWordChar(text[position + 1])

\* SearchReplace::wholeWordSearch
wholeWordSearch(text, pattern) ==
    LET keep(pos) == /\ isWordBoundary(text, pos)
                     /\ isWordBoundary(text, pos + Len(pattern))
    IN  SelectSeq(kmpSearch(text, pattern), keep)

\* std::string::replace(pos, len, str) for pos <= size(): removed is the
\* substring taken out, result the string afterwards
StrReplace(s, pos, len, str) ==
    [removed |-> Substr(s, pos, len),
     result |-> SubSeq(s, 1, pos) \o str \o SubstrFrom(s, pos + Min(len, Len(s) - pos))]

\* SearchReplace::replaceAll: result is the string returned, removed the
\* substrings the calls of replace took out, in the order of the calls
replaceAll(text, pattern, replacement) ==
    IF pattern = <<>> THEN [result |-> text, removed |-> <<>>]
    ELSE LET positions == kmpSearch(text, pattern)
             RECURSIVE splice(_, _, _)
             splice(k, result, removed) ==
                 IF k = 0 THEN [result |-> result, removed |-> removed]
                 ELSE LET done(r) == splice(k - 1, r.result, Append(removed, r.removed))
                      IN  done(StrReplace(result, positions[k], Len(pattern), replacement))
         IN  splice(Len(positions), text, <<>>)

----------------------------------------------------------------------------
(* SpecTree and SpecTreeObserved: one AVLTree driven through its public      *)
(* interface.  The steps change tree and lastCall.  SpecTreeObserved also    *)
(* records the arguments and results of the calls and the texts the history  *)
(* entries had when they were pushed; SpecTree leaves those records alone.   *)

NoCall == [op |-> "none", ok |-> TRUE]

NoInfo == [op |-> "none"]

NoTrail == [phase |-> "none", pre |-> <<>>, post |-> <<>>]

TreeInit ==
    /\ tree = EmptyTree
    /\ lastCall = NoCall
    /\ callInfo = NoInfo
    /\ undoTexts = <<>>
    /\ redoTexts = <<>>
    /\ trail = NoTrail

PlainCall == [op |-> "call", outcome |-> "returned"]

SearchIdle ==
    search = [text |-> <<>>, pattern |-> <<>>, ran |-> {},
              kmp |-> <<>>, boyerMoore |-> <<>>, rabinKarp |-> <<>>,
              replaced |-> <<>>, wholeWord |-> <<>>]

EditorIdle ==
    /\ editor = [documents_ |-> <<>>, currentDocumentIndex_ |-> 0, cursorPosition_ |-> 0,
                 selectionStart_ |-> 0, selectionEnd_ |-> 0, isSelecting_ |-> FALSE,
                 clipboard_ |-> <<>>]
    /\ edCall = PlainCall

\* HuffmanCompression and LZ77Compression before any call
CodecIdle ==
    codec = [text |-> <<>>, phase |-> "idle", root_ |-> <<>>, data |-> <<>>,
             out |-> <<>>, outcome |-> "returned", algorithm |-> 0]

\* TextEditor auto-save before enableAutoSave: no worker thread, no files
AutoSaveIdle ==
    autosave = [autoSaveEnabled_ |-> FALSE, stopAutoSave_ |-> FALSE,
                thread |-> "none", main |-> "idle", disabled |-> FALSE,
                backupFile |-> <<>>, files |-> <<>>,
                walk |-> <<>>, dangling |-> FALSE, freed |-> EmptyTree, seen |-> {}]

\* a default-constructed NLPClient and NLPIntegrationManager, nothing called yet
NlpInit ==
    nlp = [client |-> [connected_ |-> FALSE],
           client_ |-> <<>>, initialized_ |-> FALSE, cachingEnabled_ |-> FALSE,
           cache_ |-> {}, call |-> [op |-> "none"], log |-> <<>>]

\* no shell has been constructed
ShellIdle ==
    shell = [kind |-> "none"]

TreeOnly == UNCHANGED <<searchVars, editorVars, codecVars, autosaveVars, nlpVars, shellVars>>

\* a findAll that never returns leaves the caller inside the call
TreeRunning == lastCall.ok \/ lastCall.op # "findAll"

InsertStep(position, text) ==
    /\ TreeRunning
    /\ getSize(tree) + Len(text) <= TreeMaxSize
    /\ Len(tree.heap) < TreeMaxNodes
    /\ Len(tree.undoStack_) < TreeMaxHist
    /\ tree' = insert(tree, position, text)
    /\ lastCall' = [op |-> "insert", ok |-> TRUE]
    /\ TreeOnly

EraseStep(position, length) ==
    /\ TreeRunning
    /\ position + length <= getSize(tree)
    /\ Len(tree.undoStack_) < TreeMaxHist
    /\ tree' = erase(tree, position, length)
    /\ lastCall' = [op |-> "erase", ok |-> TRUE]
    /\ TreeOnly

UndoStep ==
    /\ TreeRunning
    /\ tree' = undo(tree).t
    /\ lastCall' = [op |-> "undo", ok |-> undo(tree).ok]
    /\ TreeOnly

RedoStep ==
    /\ TreeRunning
    /\ tree' = redo(tree).t
    /\ lastCall' = [op |-> "redo", ok |-> redo(tree).ok]
    /\ TreeOnly

\* ok is FALSE when the call never returns
FindAllStep(pattern) ==
    /\ TreeRunning
    /\ tree' = tree
    /\ lastCall' = [op |-> "findAll", ok |-> ~findAll(tree, pattern).hung]
    /\ TreeOnly

Unobserved == UNCHANGED <<callInfo, undoTexts, redoTexts, trail>>

TreeNext ==
    \* AVLTree::insert
    \/ \E position \in 0..getSize(tree), text \in TreeTexts :
           InsertStep(position, text) /\ Unobserved
    \* AVLTree::erase
    \/ \E position \in 0..getSize(tree), length \in 1..TreeMaxSize :
           EraseStep(position, length) /\ Unobserved
    \* AVLTree::undo
    \/ UndoStep /\ Unobserved
    \* AVLTree::redo
    \/ RedoStep /\ Unobserved
    \* AVLTree::findAll
    \/ \E pattern \in TreePatterns : FindAllStep(pattern) /\ Unobserved

TreeStart == TreeInit /\ SearchIdle /\ EditorIdle /\ CodecIdle /\ AutoSaveIdle /\ NlpInit /\ ShellIdle

SpecTree == TreeStart /\ [][TreeNext]_vars

\* the texts the entries of the undo stack had, kept in step with saveState
savedTexts(t, texts) ==
    LET pushed == IF t.root_ # NULL THEN Append(texts, TextOf(t)) ELSE texts
    IN IF t.root_ # NULL /\ Len(pushed) > HistoryLimit THEN trimInto(pushed, <<>>) ELSE pushed

ObsInsert ==
    \E position \in 0..getSize(tree), text \in TreeTexts :
        /\ InsertStep(position, text)
        /\ callInfo' = [op |-> "insert", position |-> position, text |-> text]
        /\ undoTexts' = savedTexts(tree, undoTexts)
        /\ redoTexts' = <<>>
        /\ trail' = [phase |-> "inserted", pre |-> TextOf(tree), post |-> TextOf(tree')]

ObsErase ==
    \E position \in 0..getSize(tree), length \in 1..TreeMaxSize :
        /\ EraseStep(position, length)
        /\ callInfo' = [op |-> "erase", position |-> position, length |-> length]
        /\ undoTexts' = savedTexts(tree, undoTexts)
        /\ redoTexts' = <<>>
        /\ trail' = NoTrail

ObsUndo ==
    /\ UndoStep
    /\ callInfo' = [op |-> "undo"]
    /\ IF undo(tree).ok
       THEN /\ undoTexts' = SubSeq(undoTexts, 1, Len(undoTexts) - 1)
            /\ redoTexts' = Append(redoTexts, TextOf(tree))
       ELSE UNCHANGED <<undoTexts, redoTexts>>
    /\ trail' = IF trail.phase = "inserted" THEN [trail EXCEPT !.phase = "undone"] ELSE NoTrail

ObsRedo ==
    /\ RedoStep
    /\ callInfo' = [op |-> "redo"]
    /\ IF redo(tree).ok
       THEN /\ redoTexts' = SubSeq(redoTexts, 1, Len(redoTexts) - 1)
            /\ undoTexts' = Append(undoTexts, TextOf(tree))
       ELSE UNCHANGED <<undoTexts, redoTexts>>
    /\ trail' = IF trail.phase = "undone" THEN [trail EXCEPT !.phase = "redone"] ELSE NoTrail

ObsFindAll ==
    \E pattern \in TreePatterns :
        /\ FindAllStep(pattern)
        /\ callInfo' = [op |-> "findAll", pattern |-> pattern,
                        results |-> findAll(tree, pattern).results]
        /\ trail' = NoTrail
        /\ UNCHANGED <<undoTexts, redoTexts>>

\* AVLTree::erase with a range that reaches past the end of the text
ObsEraseBeyond ==
    \E position \in 0..getSize(tree), length \in 1..(TreeMaxSize + 1) :
        /\ TreeRunning
        /\ position + length > getSize(tree)
        /\ Len(tree.undoStack_) < TreeMaxHist
        /\ tree' = erase(tree, position, length)
        /\ lastCall' = [op |-> "erase", ok |-> TRUE]
        /\ TreeOnly
        /\ callInfo' = [op |-> "erase", position |-> position, length |-> length]
        /\ undoTexts' = savedTexts(tree, undoTexts)
        /\ redoTexts' = <<>>
        /\ trail' = NoTrail

ObsNext ==
    \/ ObsInsert
    \/ ObsErase
    \/ ObsEraseBeyond
    \/ ObsUndo
    \/ ObsRedo
    \/ ObsFindAll

SpecTreeObserved == TreeStart /\ [][ObsNext]_vars

----------------------------------------------------------------------------
(* Properties of AVLTree *)

\* C1: after each insert or erase at a valid offset, getText(0, getSize())
\* equals the same edit applied to the flat text the document had before
\* the call, erases that span several fragments included.
EditsMatchReference ==
    [][/\ callInfo'.op = "insert" =>
            TextOf(tree') = RefInsert(TextOf(tree), callInfo'.position, callInfo'.text)
       /\ callInfo'.op = "erase" =>
            TextOf(tree') = RefErase(TextOf(tree), callInfo'.position, callInfo'.length)
      ]_vars

\* C2: insert of a non-empty text followed by undo restores the pre-insert
\* size and text; a following redo restores the post-insert size and text.
InsertUndoRedoRestores ==
    /\ trail.phase = "undone" =>
            TextOf(tree) = trail.pre /\ getSize(tree) = Len(trail.pre)
    /\ trail.phase = "redone" =>
            TextOf(tree) = trail.post /\ getSize(tree) = Len(trail.post)

\* C3: every root held on the undo or redo stack still represents the text it
\* had when it was pushed, so that undo steps back through the earlier texts
\* last-in-first-out.
SnapshotsKeepTheirText ==
    /\ Len(undoTexts) = Len(tree.undoStack_)
    /\ Len(redoTexts) = Len(tree.redoStack_)
    /\ \A i \in 1..Len(tree.undoStack_) : TextAtRoot(tree, tree.undoStack_[i]) = undoTexts[i]
    /\ \A i \in 1..Len(tree.redoStack_) : TextAtRoot(tree, tree.redoStack_[i]) = redoTexts[i]

\* the height of the subtree at node, counted from the links
RECURSIVE RealHeight(_, _)
RealHeight(h, node) ==
    IF node = NULL THEN 0
    ELSE 1 + Max(RealHeight(h, h[node].left), RealHeight(h, h[node].right))

\* the length of the text below node, counted from the fragments
RECURSIVE RealSize(_, _)
RealSize(h, node) ==
    IF node = NULL THEN 0
    ELSE Len(h[node].data) + RealSize(h, h[node].left) + RealSize(h, h[node].right)

RECURSIVE NodesBelow(_, _)
NodesBelow(h, node) ==
    IF node = NULL THEN {}
    ELSE {node} \cup NodesBelow(h, h[node].left) \cup NodesBelow(h, h[node].right)

FindAllEmptyPatternReturnsNothing ==
    (callInfo.op = "findAll" /\ callInfo.pattern = <<>>) =>
        (lastCall.ok /\ callInfo.results = <<>>)

\* C9: for a non-empty pattern findAll returns, in ascending order, offsets at
\* which the pattern occurs in the document text, and no occurrence is left
\* out because of the way the text is divided into fragments: every
\* occurrence is reported or overlaps a reported one.
FindAllReportsOccurrences ==
    (callInfo.op = "findAll" /\ callInfo.pattern # <<>>) =>
        LET text == TextOf(tree)
            res == callInfo.results
        IN  /\ lastCall.ok
            /\ \A k \in 1..Len(res) : OccursAt(text, callInfo.pattern, res[k])
            /\ \A k \in 1..(Len(res) - 1) : res[k] < res[k + 1]
            /\ \A i \in 0..Len(text) :
                OccursAt(text, callInfo.pattern, i) =>
                    \E k \in 1..Len(res) :
                        /\ res[k] - i < Len(callInfo.pattern)
                        /\ i - res[k] < Len(callInfo.pattern)

----------------------------------------------------------------------------
(* SpecSearch: the three algorithms run on one text and one pattern *)

SearchOnly == UNCHANGED <<treeVars, editorVars, codecVars, autosaveVars, nlpVars, shellVars>>

SearchInit ==
    \E text \in StringsUpTo(SearchAlphabet, SearchMaxText),
       pattern \in StringsUpTo(SearchAlphabet, SearchMaxPattern) :
        search = [text |-> text, pattern |-> pattern, ran |-> {},
                  kmp |-> <<>>, boyerMoore |-> <<>>, rabinKarp |-> <<>>,
              replaced |-> <<>>, wholeWord |-> <<>>]

SearchKmp ==
    /\ "kmp" \notin search.ran
    /\ search' = [search EXCEPT !.kmp = kmpSearch(search.text, search.pattern),
                                !.ran = @ \cup {"kmp"}]
    /\ SearchOnly

SearchBoyerMoore ==
    /\ "boyerMoore" \notin search.ran
    /\ search' = [search EXCEPT !.boyerMoore = boyerMooreSearch(search.text, search.pattern),
                                !.ran = @ \cup {"boyerMoore"}]
    /\ SearchOnly

SearchRabinKarp ==
    /\ "rabinKarp" \notin search.ran
    /\ search' = [search EXCEPT !.rabinKarp = rabinKarpSearch(search.text, search.pattern),
                                !.ran = @ \cup {"rabinKarp"}]
    /\ SearchOnly

\* the replacements given to replaceAll
SearchReplacements == StringsUpTo(SearchAlphabet, SearchMaxReplacement)

SearchReplaceAll ==
    /\ search.replaced = <<>>
    /\ \E replacement \in SearchReplacements :
           search' = [search EXCEPT !.replaced =
                          <<[replacement |-> replacement] @@
                            replaceAll(search.text, search.pattern, replacement)>>]
    /\ SearchOnly

SearchNext ==
    \/ SearchKmp
    \/ SearchBoyerMoore
    \/ SearchRabinKarp
    \/ SearchReplaceAll

SearchStart == TreeInit /\ SearchInit /\ EditorIdle /\ CodecIdle /\ AutoSaveIdle /\ NlpInit /\ ShellIdle

SpecSearch == SearchStart /\ [][SearchNext]_vars

\* the elements of a finite set of integers in ascending order
RECURSIVE Ascending(_)
Ascending(S) ==
    IF S = {} THEN <<>>
    ELSE LET m == CHOOSE x \in S : \A y \in S : x <= y
         IN <<m>> \o Ascending(S \ {m})

\* every offset at which pattern occurs in text, overlapping ones included
AllOccurrences(text, pattern) ==
    Ascending({i \in 0..Len(text) : OccursAt(text, pattern, i)})

\* C10: for every text and pattern the three algorithms return the same
\* list: every occurrence, overlapping ones included, in ascending order.
AlgorithmsAgree ==
    search.ran = {"kmp", "boyerMoore", "rabinKarp"} =>
        /\ search.kmp = search.boyerMoore
        /\ search.boyerMoore = search.rabinKarp
        /\ search.pattern # <<>> => search.kmp = AllOccurrences(search.text, search.pattern)

\* C11: kmpSearch with a non-empty pattern returns, in ascending order,
\* exactly the offsets at which pattern occurs in text, overlapping
\* occurrences included.  (An index outside text, pattern or lps stops the
\* evaluation of kmpLoop and lpsLoop with an error.)
KmpFindsEveryOccurrence ==
    ("kmp" \in search.ran /\ search.pattern # <<>>) =>
        search.kmp = AllOccurrences(search.text, search.pattern)

\* pattern "aa" found at the overlapping offsets 0, 1, 2 of "aaaa"
KmpOverlappingMatches ==
    /\ "kmp" \in search.ran
    /\ search.text = <<"a", "a", "a", "a">>
    /\ search.pattern = <<"a", "a">>
    /\ search.kmp = <<0, 1, 2>>

\* C8 (SearchReplace): each of the three algorithms returns an empty list for
\* an empty pattern.
SearchEmptyPatternReturnsNothing ==
    search.pattern = <<>> =>
        /\ search.kmp = <<>>
        /\ search.boyerMoore = <<>>
        /\ search.rabinKarp = <<>>

----------------------------------------------------------------------------
(* TextEditor.  ed is the record of the fields of the object; documents_ is  *)
(* 1-based here, currentDocumentIndex_ keeps the 0-based value of the code.  *)

Document(name, tree0) == [filename |-> name, title |-> name, modified |-> FALSE, content |-> tree0]

isValidDocumentIndex(ed, index) == index >= 0 /\ index < Len(ed.documents_)

\* getCurrentDocument() # nullptr
hasCurrentDocument(ed) == isValidDocumentIndex(ed, ed.currentDocumentIndex_)

currentDocument(ed) == ed.documents_[ed.currentDocumentIndex_ + 1]

content(ed) == currentDocument(ed).content

setContent(ed, t) == [ed EXCEPT !.documents_[ed.currentDocumentIndex_ + 1].content = t]

hasSelection(ed) == ed.selectionStart_ # ed.selectionEnd_

markDocumentModified(ed) ==
    IF hasCurrentDocument(ed)
    THEN [ed EXCEPT !.documents_[ed.currentDocumentIndex_ + 1].modified = TRUE]
    ELSE ed

ensureValidCursorPosition(ed) ==
    IF hasCurrentDocument(ed)
    THEN [ed EXCEPT !.cursorPosition_ = Max(0, Min(ed.cursorPosition_, getSize(content(ed))))]
    ELSE ed

clearSelection(ed) ==
    [ed EXCEPT !.selectionStart_ = ed.cursorPosition_,
               !.selectionEnd_ = ed.cursorPosition_,
               !.isSelecting_ = FALSE]

normalizeSelection(ed) ==
    IF ed.selectionStart_ > ed.selectionEnd_
    THEN [ed EXCEPT !.selectionStart_ = ed.selectionEnd_, !.selectionEnd_ = ed.selectionStart_]
    ELSE ed

newDocument(ed) ==
    LET docs == Append(ed.documents_, Document("Untitled", EmptyTree))
    IN clearSelection([ed EXCEPT !.documents_ = docs,
                                 !.currentDocumentIndex_ = Len(docs) - 1,
                                 !.cursorPosition_ = 0])

\* the TextEditor constructor
NewTextEditor ==
    newDocument([documents_ |-> <<>>, currentDocumentIndex_ |-> 0, cursorPosition_ |-> 0,
                 selectionStart_ |-> 0, selectionEnd_ |-> 0, isSelecting_ |-> FALSE,
                 clipboard_ |-> <<>>])

\* the files on disk; a file name outside the domain cannot be opened
Disk == [name \in {"notes.txt", "todo.txt"} |->
            IF name = "notes.txt" THEN <<"\n">> ELSE <<"a">>]

\* openDocument that keeps the document it made for a file it could not load
openDocumentKeepsFailed(ed, filename) ==
    LET docs == Append(ed.documents_, Document(filename, EmptyTree))
    IN  [ed |-> clearSelection([ed EXCEPT !.documents_ = docs,
                                          !.currentDocumentIndex_ = Len(docs) - 1,
                                          !.cursorPosition_ = 0]),
         ok |-> filename \in DOMAIN Disk]
\* [ed |-> editor after the call, ok |-> the bool returned]
openDocument(ed, filename) ==
    IF filename \in DOMAIN Disk
    THEN LET doc == Document(filename, loadFromFile(Disk[filename]))
             docs == Append(ed.documents_, doc)
         IN [ed |-> clearSelection([ed EXCEPT !.documents_ = docs,
                                              !.currentDocumentIndex_ = Len(docs) - 1,
                                              !.cursorPosition_ = 0]),
             ok |-> TRUE]
    ELSE [ed |-> ed, ok |-> FALSE]

\* closeDocument that leaves currentDocumentIndex_ as it is
closeDocumentStaleIndex(ed, index) ==
    IF ~isValidDocumentIndex(ed, index) THEN [ed |-> ed, ok |-> FALSE]
    ELSE
    LET docs == SubSeq(ed.documents_, 1, index) \o
                SubSeq(ed.documents_, index + 2, Len(ed.documents_))
        ed1 == [ed EXCEPT !.documents_ = docs]
        ed2 == IF docs = <<>> THEN newDocument(ed1) ELSE ed1
    IN [ed |-> clearSelection([ed2 EXCEPT !.cursorPosition_ = 0]), ok |-> TRUE]

closeDocument(ed, index) ==
    IF ~isValidDocumentIndex(ed, index) THEN [ed |-> ed, ok |-> FALSE]
    ELSE
    LET docs == SubSeq(ed.documents_, 1, index) \o
                SubSeq(ed.documents_, index + 2, Len(ed.documents_))
        ed1 == [ed EXCEPT !.documents_ = docs,
                          !.currentDocumentIndex_ =
                              IF ed.currentDocumentIndex_ >= Len(docs)
                              THEN Max(0, Len(docs) - 1)
                              ELSE ed.currentDocumentIndex_]
        ed2 == IF docs = <<>> THEN newDocument(ed1) ELSE ed1
    IN [ed |-> clearSelection([ed2 EXCEPT !.cursorPosition_ = 0]), ok |-> TRUE]

switchToDocument(ed, index) ==
    IF isValidDocumentIndex(ed, index)
    THEN clearSelection([ed EXCEPT !.currentDocumentIndex_ = index, !.cursorPosition_ = 0])
    ELSE ed

deleteSelection(ed) ==
    IF ~hasSelection(ed) THEN ed
    ELSE IF ~hasCurrentDocument(ed) THEN ed
    ELSE
    LET length == ed.selectionEnd_ - ed.selectionStart_
        ed1 == setContent(ed, erase(content(ed), ed.selectionStart_, length))
        ed2 == [ed1 EXCEPT !.cursorPosition_ = ed.selectionStart_]
    IN markDocumentModified(clearSelection(ed2))

insertText(ed, text) ==
    IF ~hasCurrentDocument(ed) THEN ed
    ELSE
    LET inserted(ed1) ==
            markDocumentModified(
                [setContent(ed1, insert(content(ed1), ed1.cursorPosition_, text))
                    EXCEPT !.cursorPosition_ = ed1.cursorPosition_ + Len(text)])
    IN inserted(IF hasSelection(ed) THEN deleteSelection(ed) ELSE ed)

deleteText(ed, length) ==
    IF ~hasCurrentDocument(ed) THEN ed
    ELSE IF hasSelection(ed) THEN deleteSelection(ed)
    ELSE
    LET actualLength == Min(length, getSize(content(ed)) - ed.cursorPosition_)
    IN IF actualLength > 0
       THEN markDocumentModified(
                setContent(ed, erase(content(ed), ed.cursorPosition_, actualLength)))
       ELSE ed

backspace(ed, length) ==
    IF ~hasCurrentDocument(ed) THEN ed
    ELSE IF hasSelection(ed) THEN deleteSelection(ed)
    ELSE
    LET actualLength == Min(length, ed.cursorPosition_)
        erased(ed1) == markDocumentModified(
                setContent(ed1, erase(content(ed1), ed1.cursorPosition_, actualLength)))
    IN IF actualLength > 0
       THEN erased([ed EXCEPT !.cursorPosition_ = ed.cursorPosition_ - actualLength])
       ELSE ed

moveCursor(ed, offset) ==
    IF ~hasCurrentDocument(ed) THEN ed
    ELSE ensureValidCursorPosition(
            [ed EXCEPT !.cursorPosition_ = treeMoveCursor(content(ed), ed.cursorPosition_, offset)])

moveCursorTo(ed, position) ==
    IF ~hasCurrentDocument(ed) THEN ed
    ELSE ensureValidCursorPosition(
            [ed EXCEPT !.cursorPosition_ = Max(0, Min(position, getSize(content(ed))))])

getLineCount(ed) ==
    IF ~hasCurrentDocument(ed) THEN 0 ELSE CountNewlines(TextOf(content(ed))) + 1

getCurrentLine(ed) ==
    IF ~hasCurrentDocument(ed) THEN 1 ELSE getLineNumber(content(ed), ed.cursorPosition_)

getCurrentColumn(ed) ==
    IF ~hasCurrentDocument(ed) THEN 1 ELSE getColumnNumber(content(ed), ed.cursorPosition_) + 1

\* moveCursorToLine, moveCursorUp and moveCursorDown call one another.  Each
\* returns [ed |-> editor after the call, overflow |-> TRUE when the nesting
\* went past what the stack holds]; depth is the number of frames in use.
Returned(ed) == [ed |-> ed, overflow |-> FALSE]

StackOverflow(ed) == [ed |-> ed, overflow |-> TRUE]

RECURSIVE moveCursorToLineAt(_, _, _)
RECURSIVE moveCursorUpAt(_, _)
RECURSIVE moveCursorDownAt(_, _)
RECURSIVE repeatDown(_, _, _)
RECURSIVE repeatUp(_, _, _)

\* the for loops of moveCursorToLine
repeatDown(ed, n, depth) ==
    IF n <= 0 THEN Returned(ed)
    ELSE LET next(r) == IF r.overflow THEN r ELSE repeatDown(r.ed, n - 1, depth)
         IN next(moveCursorDownAt(ed, depth + 1))

repeatUp(ed, n, depth) ==
    IF n <= 0 THEN Returned(ed)
    ELSE LET next(r) == IF r.overflow THEN r ELSE repeatUp(r.ed, n - 1, depth)
         IN next(moveCursorUpAt(ed, depth + 1))

moveCursorToLineAt(ed, line, depth) ==
    IF depth > MaxCallDepth THEN StackOverflow(ed)
    ELSE IF ~hasCurrentDocument(ed) THEN Returned(ed)
    ELSE
    LET by(lineDiff) ==
            IF lineDiff > 0 THEN repeatDown(ed, lineDiff, depth)
            ELSE IF lineDiff < 0 THEN repeatUp(ed, -lineDiff, depth)
            ELSE Returned(ed)
    IN by(line - getCurrentLine(ed))

\* the tail shared by moveCursorUp and moveCursorDown: keep the column
placeInLine(ed, currentColumn) ==
    LET place(newLineStart, newLineEnd) ==
            moveCursorTo(ed, newLineStart + Min(currentColumn, newLineEnd - newLineStart))
    IN place(getLineStart(content(ed), ed.cursorPosition_),
             getLineEnd(content(ed), ed.cursorPosition_))

moveCursorUpAt(ed, depth) ==
    IF depth > MaxCallDepth THEN StackOverflow(ed)
    ELSE IF ~hasCurrentDocument(ed) THEN Returned(ed)
    ELSE
    LET landed(r, currentColumn) ==
            IF r.overflow THEN r ELSE Returned(placeInLine(r.ed, currentColumn))
        from(currentLine, currentColumn) ==
            IF currentLine > 1
            THEN landed(moveCursorToLineAt(ed, currentLine - 1, depth + 1), currentColumn)
            ELSE Returned(ed)
    IN from(getCurrentLine(ed), getCurrentColumn(ed))

moveCursorDownAt(ed, depth) ==
    IF depth > MaxCallDepth THEN StackOverflow(ed)
    ELSE IF ~hasCurrentDocument(ed) THEN Returned(ed)
    ELSE
    LET landed(r, currentColumn) ==
            IF r.overflow THEN r ELSE Returned(placeInLine(r.ed, currentColumn))
        from(currentLine, currentColumn, totalLines) ==
            IF currentLine < totalLines
            THEN landed(moveCursorToLineAt(ed, currentLine + 1, depth + 1), currentColumn)
            ELSE Returned(ed)
    IN from(getCurrentLine(ed), getCurrentColumn(ed), getLineCount(ed))

moveCursorToLine(ed, line) == moveCursorToLineAt(ed, line, 1)

moveCursorUp(ed) == moveCursorUpAt(ed, 1)

moveCursorDown(ed) == moveCursorDownAt(ed, 1)

moveCursorToLineStart(ed) ==
    IF ~hasCurrentDocument(ed) THEN ed
    ELSE [ed EXCEPT !.cursorPosition_ = getLineStart(content(ed), ed.cursorPosition_)]

moveCursorToLineEnd(ed) ==
    IF ~hasCurrentDocument(ed) THEN ed
    ELSE [ed EXCEPT !.cursorPosition_ = getLineEnd(content(ed), ed.cursorPosition_)]

moveCursorToDocumentStart(ed) == [ed EXCEPT !.cursorPosition_ = 0]

moveCursorToDocumentEnd(ed) ==
    IF hasCurrentDocument(ed)
    THEN [ed EXCEPT !.cursorPosition_ = getSize(content(ed))]
    ELSE ed

moveCursorLeft(ed) == IF ed.cursorPosition_ > 0 THEN moveCursor(ed, -1) ELSE ed

moveCursorRight(ed) ==
    IF hasCurrentDocument(ed) /\ ed.cursorPosition_ < getSize(content(ed))
    THEN moveCursor(ed, 1)
    ELSE ed

startSelection(ed) ==
    [ed EXCEPT !.isSelecting_ = TRUE,
               !.selectionStart_ = ed.cursorPosition_,
               !.selectionEnd_ = ed.cursorPosition_]

endSelection(ed) ==
    IF ed.isSelecting_
    THEN normalizeSelection([ed EXCEPT !.selectionEnd_ = ed.cursorPosition_,
                                       !.isSelecting_ = FALSE])
    ELSE ed

selectLine(ed) ==
    IF ~hasCurrentDocument(ed) THEN ed
    ELSE [ed EXCEPT !.selectionStart_ = getLineStart(content(ed), ed.cursorPosition_),
                    !.selectionEnd_ = getLineEnd(content(ed), ed.cursorPosition_),
                    !.isSelecting_ = FALSE]

RECURSIVE wordStart(_, _)
wordStart(t, start) ==
    IF start > 0 /\ IsWordChar(getChar(t, start - 1)) THEN wordStart(t, start - 1) ELSE start

RECURSIVE wordEnd(_, _)
wordEnd(t, end) ==
    IF end < getSize(t) /\ IsWordChar(getChar(t, end)) THEN wordEnd(t, end + 1) ELSE end

selectWord(ed) ==
    IF ~hasCurrentDocument(ed) THEN ed
    ELSE [ed EXCEPT !.selectionStart_ = wordStart(content(ed), ed.cursorPosition_),
                    !.selectionEnd_ = wordEnd(content(ed), ed.cursorPosition_),
                    !.isSelecting_ = FALSE]

editorGetText(ed, start, length) ==
    IF ~hasCurrentDocument(ed) THEN <<>> ELSE getText(content(ed), start, length)

getSelectedText(ed) ==
    IF ~hasSelection(ed) THEN <<>>
    ELSE editorGetText(ed, ed.selectionStart_, ed.selectionEnd_ - ed.selectionStart_)

copy(ed) == IF hasSelection(ed) THEN [ed EXCEPT !.clipboard_ = getSelectedText(ed)] ELSE ed

cut(ed) == deleteSelection(copy(ed))

paste(ed) == IF ed.clipboard_ # <<>> THEN insertText(ed, ed.clipboard_) ELSE ed

editorUndo(ed) ==
    LET undone(r) ==
            IF r.ok THEN ensureValidCursorPosition(markDocumentModified(setContent(ed, r.t)))
            ELSE ed
    IN IF hasCurrentDocument(ed) THEN undone(undo(content(ed))) ELSE ed

editorRedo(ed) ==
    LET redone(r) ==
            IF r.ok THEN ensureValidCursorPosition(markDocumentModified(setContent(ed, r.t)))
            ELSE ed
    IN IF hasCurrentDocument(ed) THEN redone(redo(content(ed))) ELSE ed

\* ::tolower
ToLowerChar(c) == CASE c = "A" -> "a" [] c = "B" -> "b" [] OTHER -> c

ToLower(str) == [k \in 1..Len(str) |-> ToLowerChar(str[k])]

\* [results |-> the vector returned, hung |-> TRUE when findAll never returns]
findText(ed, pattern, caseSensitive) ==
    IF ~hasCurrentDocument(ed) THEN [results |-> <<>>, hung |-> FALSE]
    ELSE
    LET searchPattern == IF caseSensitive THEN pattern ELSE ToLower(pattern)
        matches(pos) == ToLower(getText(content(ed), pos, Len(pattern))) = searchPattern
        answer(found) ==
            IF found.hung THEN found
            ELSE IF ~caseSensitive
                 THEN [results |-> SelectSeq(found.results, matches), hung |-> FALSE]
            ELSE found
    IN answer(findAll(content(ed), pattern))

\* erase and insert at each position, from the last position to the first
RECURSIVE replaceEach(_, _, _, _, _)
replaceEach(t, positions, k, patternLength, replacement) ==
    IF k < 1 THEN t
    ELSE replaceEach(insert(erase(t, positions[k], patternLength), positions[k], replacement),
                     positions, k - 1, patternLength, replacement)

\* the part of replaceText and replaceRegex after the search
replaceAt(ed, positions, patternLength, replacement, all) ==
    LET replaced(t) ==
            IF all THEN replaceEach(t, positions, Len(positions), patternLength, replacement)
            ELSE IF positions # <<>>
                 THEN insert(erase(t, positions[1], patternLength), positions[1], replacement)
            ELSE t
    IN markDocumentModified(setContent(ed, replaced(content(ed))))

\* [ed |-> editor after the call, hung |-> TRUE when the call never returns]
replaceText(ed, pattern, replacement, all) ==
    IF ~hasCurrentDocument(ed) THEN [ed |-> ed, hung |-> FALSE]
    ELSE LET replaced(positions) ==
                IF positions.hung THEN [ed |-> ed, hung |-> TRUE]
                ELSE [ed |-> replaceAt(ed, positions.results, Len(pattern), replacement, all),
                      hung |-> FALSE]
         IN replaced(findText(ed, pattern, FALSE))

replaceRegex(ed, pattern, replacement, all) ==
    IF ~hasCurrentDocument(ed) THEN ed
    ELSE replaceAt(ed, findAllRegex(content(ed), pattern), Len(pattern), replacement, all)

----------------------------------------------------------------------------
(* SpecEditor: one TextEditor driven through its public interface *)

EditorOnly == UNCHANGED <<treeVars, searchVars, codecVars, autosaveVars, nlpVars, shellVars>>

EditorInit ==
    /\ editor = NewTextEditor
    /\ edCall = PlainCall

\* edCall names the call and its arguments only for the line movements and
\* findText and for a call that does not return; any other call leaves PlainCall
\* a call that never returns, or that overflows the stack, ends the run
EdRunning == edCall.outcome = "returned"

EdTexts == StringsUpTo(EdAlphabet, EdMaxInsert)

\* the edit starts within the bounds of the model
CanEdit == Len(content(editor).undoStack_) <= EdMaxHist

CanGrow(n) ==
    /\ CanEdit
    /\ getSize(content(editor)) + n <= EdMaxSize
    /\ Len(content(editor).heap) < EdMaxNodes

\* the editor and the call record after a call that returned r = [ed, overflow];
\* line is the argument of moveCursorToLine
Moved(op, line, r) ==
    /\ editor' = r.ed
    /\ edCall' = IF op = "moveCursorToLine"
                  THEN [op |-> op, line |-> line,
                        outcome |-> IF r.overflow THEN "overflow" ELSE "returned"]
                  ELSE [op |-> op,
                        outcome |-> IF r.overflow THEN "overflow" ELSE "returned"]

\* the call record after findText(pattern) gave r = [results, hung]
Searched(pattern, r) ==
    [op |-> "findText", pattern |-> pattern, results |-> r.results,
     outcome |-> IF r.hung THEN "hung" ELSE "returned"]

\* the editor and the call record after replaceText gave r = [ed, hung]
Replaced(r) ==
    /\ editor' = r.ed
    /\ edCall' = IF r.hung THEN [op |-> "replaceText", outcome |-> "hung"] ELSE PlainCall

\* the editor and the call record after openDocument or closeDocument gave
\* r = [ed, ok]; info holds what the record says about the state before
Answered(op, info, r) ==
    /\ editor' = r.ed
    /\ edCall' = [op |-> op, outcome |-> "returned", ok |-> r.ok] @@ info

NewDocumentStep(limit) ==
    /\ EdRunning
    /\ Len(editor.documents_) < limit
    /\ editor' = newDocument(editor)
    /\ edCall' = PlainCall
    /\ EditorOnly

OpenDocumentStep(limit, filename) ==
    /\ EdRunning
    /\ Len(editor.documents_) < limit
    /\ Answered("openDocument", [filename |-> filename], openDocument(editor, filename))
    /\ EditorOnly

\* had and closed: the number of documents before the call and the file name
\* of the document at index ("" when the index is not valid)
CloseDocumentStep(index) ==
    /\ EdRunning
    /\ Answered("closeDocument",
                [had |-> Len(editor.documents_),
                 closed |-> IF isValidDocumentIndex(editor, index)
                            THEN editor.documents_[index + 1].filename ELSE ""],
                closeDocument(editor, index))
    /\ EditorOnly

SwitchToDocumentStep(index) ==
    /\ EdRunning
    /\ editor' = switchToDocument(editor, index)
    /\ edCall' = PlainCall
    /\ EditorOnly

EditorNext ==
    \* TextEditor::newDocument
    \/ NewDocumentStep(EdMaxDocs)
    \* TextEditor::openDocument
    \/ \E filename \in {"notes.txt", "missing.txt"} : OpenDocumentStep(EdMaxDocs, filename)
    \* TextEditor::closeDocument
    \/ \E index \in -1..EdMaxDocs : CloseDocumentStep(index)
    \* TextEditor::switchToDocument
    \/ \E index \in -1..EdMaxDocs : SwitchToDocumentStep(index)
    \* TextEditor::insertText
    \/ \E text \in EdTexts :
           /\ EdRunning
           /\ CanGrow(Len(text))
           /\ editor' = insertText(editor, text)
           /\ edCall' = PlainCall
           /\ EditorOnly
    \* TextEditor::deleteText
    \/ \E length \in 1..EdMaxSize :
           /\ EdRunning
           /\ CanEdit
           /\ editor' = deleteText(editor, length)
           /\ edCall' = PlainCall
           /\ EditorOnly
    \* TextEditor::backspace
    \/ \E length \in 1..EdMaxSize :
           /\ EdRunning
           /\ CanEdit
           /\ editor' = backspace(editor, length)
           /\ edCall' = PlainCall
           /\ EditorOnly
    \* TextEditor::moveCursor
    \/ \E offset \in {-1, 1, EdMaxSize} :
           /\ EdRunning
           /\ editor' = moveCursor(editor, offset)
           /\ edCall' = PlainCall
           /\ EditorOnly
    \* TextEditor::moveCursorTo
    \/ \E position \in -1..(EdMaxSize + 1) :
           /\ EdRunning
           /\ editor' = moveCursorTo(editor, position)
           /\ edCall' = PlainCall
           /\ EditorOnly
    \* TextEditor::moveCursorToLine
    \/ \E line \in 0..(EdMaxSize + 2) :
           /\ EdRunning
           /\ Moved("moveCursorToLine", line, moveCursorToLine(editor, line))
           /\ EditorOnly
    \* TextEditor::moveCursorUp
    \/ /\ EdRunning
       /\ Moved("moveCursorUp", 0, moveCursorUp(editor))
       /\ EditorOnly
    \* TextEditor::moveCursorDown
    \/ /\ EdRunning
       /\ Moved("moveCursorDown", 0, moveCursorDown(editor))
       /\ EditorOnly
    \* TextEditor::moveCursorToLineStart
    \/ /\ EdRunning
       /\ editor' = moveCursorToLineStart(editor)
       /\ edCall' = PlainCall
       /\ EditorOnly
    \* TextEditor::moveCursorToLineEnd
    \/ /\ EdRunning
       /\ editor' = moveCursorToLineEnd(editor)
       /\ edCall' = PlainCall
       /\ EditorOnly
    \* TextEditor::moveCursorToDocumentStart
    \/ /\ EdRunning
       /\ editor' = moveCursorToDocumentStart(editor)
       /\ edCall' = PlainCall
       /\ EditorOnly
    \* TextEditor::moveCursorToDocumentEnd
    \/ /\ EdRunning
       /\ editor' = moveCursorToDocumentEnd(editor)
       /\ edCall' = PlainCall
       /\ EditorOnly
    \* TextEditor::moveCursorLeft
    \/ /\ EdRunning
       /\ editor' = moveCursorLeft(editor)
       /\ edCall' = PlainCall
       /\ EditorOnly
    \* TextEditor::moveCursorRight
    \/ /\ EdRunning
       /\ editor' = moveCursorRight(editor)
       /\ edCall' = PlainCall
       /\ EditorOnly
    \* TextEditor::startSelection
    \/ /\ EdRunning
       /\ editor' = startSelection(editor)
       /\ edCall' = PlainCall
       /\ EditorOnly
    \* TextEditor::endSelection
    \/ /\ EdRunning
       /\ editor' = endSelection(editor)
       /\ edCall' = PlainCall
       /\ EditorOnly
    \* TextEditor::clearSelection
    \/ /\ EdRunning
       /\ editor' = clearSelection(editor)
       /\ edCall' = PlainCall
       /\ EditorOnly
    \* TextEditor::selectLine
    \/ /\ EdRunning
       /\ editor' = selectLine(editor)
       /\ edCall' = PlainCall
       /\ EditorOnly
    \* TextEditor::selectWord
    \/ /\ EdRunning
       /\ editor' = selectWord(editor)
       /\ edCall' = PlainCall
       /\ EditorOnly
    \* TextEditor::copy
    \/ /\ EdRunning
       /\ editor' = copy(editor)
       /\ edCall' = PlainCall
       /\ EditorOnly
    \* TextEditor::cut
    \/ /\ EdRunning
       /\ CanEdit
       /\ editor' = cut(editor)
       /\ edCall' = PlainCall
       /\ EditorOnly
    \* TextEditor::paste
    \/ /\ EdRunning
       /\ CanGrow(Len(editor.clipboard_))
       /\ editor' = paste(editor)
       /\ edCall' = PlainCall
       /\ EditorOnly
    \* TextEditor::undo
    \/ /\ EdRunning
       /\ editor' = editorUndo(editor)
       /\ edCall' = PlainCall
       /\ EditorOnly
    \* TextEditor::redo
    \/ /\ EdRunning
       /\ editor' = editorRedo(editor)
       /\ edCall' = PlainCall
       /\ EditorOnly
    \* TextEditor::deleteSelection
    \/ /\ EdRunning
       /\ CanEdit
       /\ editor' = deleteSelection(editor)
       /\ edCall' = PlainCall
       /\ EditorOnly
    \* TextEditor::findText
    \/ \E pattern \in EdTexts, caseSensitive \in BOOLEAN :
           /\ EdRunning
           /\ editor' = editor
           /\ edCall' = Searched(pattern, findText(editor, pattern, caseSensitive))
           /\ EditorOnly
    \* TextEditor::replaceText
    \/ \E pattern \in EdTexts, replacement \in EdTexts, all \in BOOLEAN :
           /\ EdRunning
           /\ CanGrow(Len(replacement))
           /\ Replaced(replaceText(editor, pattern, replacement, all))
           /\ EditorOnly
    \* TextEditor::replaceRegex
    \/ \E pattern \in EdTexts \ {<<>>}, replacement \in EdTexts, all \in BOOLEAN :
           /\ EdRunning
           /\ CanGrow(Len(replacement))
           /\ editor' = replaceRegex(editor, pattern, replacement, all)
           /\ edCall' = PlainCall
           /\ EditorOnly

EditorStart == TreeInit /\ SearchIdle /\ EditorInit /\ CodecIdle /\ AutoSaveIdle /\ NlpInit /\ ShellIdle

SpecEditor == EditorStart /\ [][EditorNext]_vars

----------------------------------------------------------------------------
(* SpecDocs: the document list of one TextEditor, driven through newDocument, *)
(* openDocument, closeDocument and switchToDocument                           *)

DocsNext ==
    \* TextEditor::newDocument
    \/ NewDocumentStep(DocsMax)
    \* TextEditor::openDocument
    \/ \E filename \in DOMAIN Disk \cup {"missing.txt"} : OpenDocumentStep(DocsMax, filename)
    \* TextEditor::closeDocument
    \/ \E index \in -1..DocsMax : CloseDocumentStep(index)
    \* TextEditor::switchToDocument
    \/ \E index \in -1..DocsMax : SwitchToDocumentStep(index)
    \* TextEditor::moveCursorLeft
    \/ /\ editor' = moveCursorLeft(editor)
       /\ edCall' = PlainCall
       /\ EditorOnly
    \* TextEditor::moveCursorRight
    \/ /\ editor' = moveCursorRight(editor)
       /\ edCall' = PlainCall
       /\ EditorOnly
    \* TextEditor::startSelection
    \/ /\ editor' = startSelection(editor)
       /\ edCall' = PlainCall
       /\ EditorOnly
    \* TextEditor::endSelection
    \/ /\ editor' = endSelection(editor)
       /\ edCall' = PlainCall
       /\ EditorOnly

SpecDocs == EditorStart /\ [][DocsNext]_vars

----------------------------------------------------------------------------
(* Properties of TextEditor *)

SizeOfActive == getSize(content(editor))

\* C5: after every public operation the cursor offset, selectionStart and
\* selectionEnd lie in [0, size of the active document].
OffsetsWithinDocument ==
    EdRunning =>
        /\ editor.cursorPosition_ \in 0..SizeOfActive
        /\ editor.selectionStart_ \in 0..SizeOfActive
        /\ editor.selectionEnd_ \in 0..SizeOfActive

\* C6: the editor always holds at least one document and
\* currentDocumentIndex is a valid index, whatever index closeDocument and
\* switchToDocument are given; closing the last remaining document leaves
\* exactly one fresh empty document.
AlwaysOneDocument ==
    /\ Len(editor.documents_) >= 1
    /\ isValidDocumentIndex(editor, editor.currentDocumentIndex_)
    /\ (edCall.op = "closeDocument" /\ edCall.ok /\ edCall.had = 1) =>
            /\ editor.documents_ = <<Document("Untitled", EmptyTree)>>
            /\ editor.currentDocumentIndex_ = 0

\* the only document left, loaded from notes.txt, has been closed
ClosedLastDocument ==
    /\ edCall.op = "closeDocument"
    /\ edCall.ok
    /\ edCall.had = 1
    /\ edCall.closed = "notes.txt"
    /\ Len(editor.documents_) = 1

\* C7: moveCursorToLine(line) with 1 <= line <= line count returns, and
\* returns with getCurrentLine() = line.
MoveCursorToLineArrives ==
    (edCall.op = "moveCursorToLine" /\ edCall.line \in 1..getLineCount(editor)) =>
        /\ edCall.outcome = "returned"
        /\ getCurrentLine(editor) = edCall.line

\* C8 (TextEditor::findText): with an empty pattern findText returns, and
\* returns an empty result.
FindTextEmptyPatternReturnsNothing ==
    (edCall.op = "findText" /\ edCall.pattern = <<>>) =>
        (edCall.outcome = "returned" /\ edCall.results = <<>>)

----------------------------------------------------------------------------
(* HuffmanCompression: one codec object, its tree kept in root_ *)

CodecMaxText == 3       \* longest text handed to a codec

CodecAlphabet == {"a", "b", "c"}

CodecTexts == StringsUpTo(CodecAlphabet, CodecMaxText)

\* '\0', the character of a merged HuffmanNode and of std::string's text[size()]
NUL == "NUL"

\* the byte serializeTree writes and decodeText looks for
TreeSeparator == 255

\* a shared_ptr<HuffmanNode> is <<>> when null and <<node>> otherwise
HuffmanNode(c, freq, l, r) ==
    [character |-> c, frequency |-> freq, left |-> l, right |-> r]

isLeaf(node) == node.left = <<>> /\ node.right = <<>>

\* frequencyTable_ after buildFrequencyTable
buildFrequencyTable(text) ==
    [c \in {text[i] : i \in 1..Len(text)} |->
        Cardinality({i \in 1..Len(text) : text[i] = c})]

\* every root_ buildHuffmanTree can leave: the priority queue hands out a node
\* of least frequency, and which one among equals depends on the iteration
\* order of the unordered_map and on the heap's layout
buildHuffmanTree(frequencyTable_) ==
    LET least(pq) == {n \in pq : \A m \in pq : n.frequency <= m.frequency}
        RECURSIVE build(_)
        build(pq) ==
            IF Cardinality(pq) > 1 THEN
                UNION {UNION {build((pq \ {l, r}) \cup
                                  {HuffmanNode(NUL, l.frequency + r.frequency,
                                               <<l>>, <<r>>)})
                              : r \in least(pq \ {l})}
                       : l \in least(pq)}
            ELSE IF pq = {} THEN {<<>>}
            ELSE {<<n>> : n \in pq}
    IN  build({HuffmanNode(c, frequencyTable_[c], <<>>, <<>>)
               : c \in DOMAIN frequencyTable_})

\* the entries generateCodesHelper adds to huffmanCodes_, as <<character, code>>
RECURSIVE generateCodesHelper(_, _)
generateCodesHelper(node, code) ==
    IF node = <<>> THEN {}
    ELSE IF isLeaf(node[1]) THEN {<<node[1].character, code>>}
    ELSE generateCodesHelper(node[1].left, Append(code, 0))
            \cup generateCodesHelper(node[1].right, Append(code, 1))

\* huffmanCodes_ after generateHuffmanCodes
generateHuffmanCodes(root_) ==
    LET entries ==
            IF root_ = <<>> THEN {}
            ELSE IF isLeaf(root_[1]) THEN {<<root_[1].character, <<0>>>>}
            ELSE generateCodesHelper(root_, <<>>)
    IN  [c \in {e[1] : e \in entries} |->
            (CHOOSE e \in entries : e[1] = c)[2]]

\* the bytes writeBits appends: eight bits a byte, the first bit the highest,
\* the last byte filled up with zero bits
writeBits(bits) ==
    LET RECURSIVE write(_, _, _, _)
        write(k, currentByte, bitCount, data) ==
            IF k > Len(bits) THEN
                IF bitCount > 0 THEN Append(data, currentByte) ELSE data
            ELSE
                LET byte == IF bits[k] = 1
                            THEN currentByte + 2 ^ (7 - bitCount)
                            ELSE currentByte
                IN  IF bitCount + 1 = 8
                    THEN write(k + 1, 0, 0, Append(data, byte))
                    ELSE write(k + 1, byte, bitCount + 1, data)
    IN  write(1, 0, 0, <<>>)

encodeText(huffmanCodes_, text) ==
    LET RECURSIVE bitString(_)
        bitString(k) ==
            IF k > Len(text) THEN <<>>
            ELSE (IF text[k] \in DOMAIN huffmanCodes_
                  THEN huffmanCodes_[text[k]] ELSE <<>>) \o bitString(k + 1)
    IN  writeBits(bitString(1))

\* decodeText: result is what was decoded when the loop ended; undefined says
\* that the loop went through a null current (current->left, current->right)
decodeText(root_, encodedData) ==
    LET skipped == {k \in 1..Len(encodedData) :
                        \A j \in 1..k : encodedData[j] # TreeSeparator}
        treeStart == Cardinality(skipped) + 1
        RECURSIVE walk(_, _, _, _)
        walk(i, bit, current, result) ==
            IF i >= Len(encodedData) THEN
                [undefined |-> FALSE, result |-> result]
            ELSE IF current = <<>> THEN
                [undefined |-> TRUE, result |-> result]
            ELSE
                LET bitValue == (encodedData[i + 1] \div 2 ^ bit) % 2
                    next == IF bitValue = 1 THEN current[1].right
                                            ELSE current[1].left
                    found == next # <<>> /\ isLeaf(next[1])
                    after == IF found THEN Append(result, next[1].character)
                                      ELSE result
                    from == IF found THEN root_ ELSE next
                IN  IF bit = 0 THEN walk(i + 1, 7, from, after)
                               ELSE walk(i, bit - 1, from, after)
    IN  IF root_ = <<>> THEN [undefined |-> FALSE, result |-> <<>>]
        ELSE walk(treeStart, 7, root_, <<>>)

\* HuffmanCompression::compress: every [root_, data] the call can leave
huffmanCompress(root_, text) ==
    IF text = <<>> THEN {[root_ |-> root_, data |-> <<>>]}
    ELSE {[root_ |-> built,
           data |-> <<TreeSeparator>> \o encodeText(generateHuffmanCodes(built), text)]
          : built \in buildHuffmanTree(buildFrequencyTable(text))}

\* HuffmanCompression::decompress
huffmanDecompress(root_, compressedData) ==
    IF compressedData = <<>> THEN [undefined |-> FALSE, result |-> <<>>]
    ELSE decodeText(root_, compressedData)

----------------------------------------------------------------------------
(* LZ77Compression *)

\* the default arguments of the LZ77Compression constructor
WindowSize == 32768

BufferSize == 258

\* the char a byte is read back as
Chr(n) == CHOOSE c \in CodecAlphabet \cup {NUL} : Ord(c) = n

LZ77Token(o, l, c) == [offset |-> o, length |-> l, nextChar |-> c]

\* text[k] of a const std::string: the character, and '\0' at k = size()
CharAt(text, k) == IF k = Len(text) THEN NUL ELSE text[k + 1]

\* <<bestOffset, bestLength>>
findLongestMatch(text, currentPos) ==
    LET searchStart == Max(0, currentPos - WindowSize)
        maxLength == Min(BufferSize, Len(text) - currentPos)
        \* the while loop counts up from 0 and stops at the first length that
        \* reaches maxLength, currentPos - i or the end of the text, or at
        \* which the two characters differ
        extend(i) ==
            LET limit == Min(maxLength, Min(currentPos - i, Len(text) - currentPos))
                stops == {length \in 0..limit :
                              \/ length = limit
                              \/ text[i + length + 1] # text[currentPos + length + 1]}
            IN  CHOOSE length \in stops : \A other \in stops : length <= other
        \* the for loop keeps the first i whose length is greater than every
        \* length before it: the first i that reaches the greatest length
        starts == searchStart..(currentPos - 1)
        found == {extend(i) : i \in starts} \cup {0}
        bestLength == CHOOSE l \in found : \A m \in found : m <= l
        hits == {i \in starts : extend(i) = bestLength}
        first == CHOOSE i \in hits : \A j \in hits : i <= j
    IN  IF bestLength = 0 THEN <<0, 0>> ELSE <<currentPos - first, bestLength>>

\* LZ77Compression::encode
lz77Encode(text) ==
    LET RECURSIVE loop(_, _)
        loop(pos, tokens) ==
            IF pos < Len(text) THEN
                LET emit(match) ==
                        IF match[1] > 0 /\ match[2] > 0
                        THEN loop(pos + match[2] + 1,
                                  Append(tokens,
                                         LZ77Token(match[1], match[2],
                                                   CharAt(text, pos + match[2]))))
                        ELSE loop(pos + 1,
                                  Append(tokens, LZ77Token(0, 0, CharAt(text, pos))))
                IN  emit(findLongestMatch(text, pos))
            ELSE tokens
    IN  loop(0, <<>>)

\* LZ77Compression::decode
lz77Decode(tokens) ==
    LET RECURSIVE repeat(_, _, _, _)
        repeat(result, start, i, length) ==
            IF i < length
            THEN repeat(Append(result, result[start + i + 1]), start, i + 1, length)
            ELSE result
        RECURSIVE loop(_, _)
        loop(k, result) ==
            IF k > Len(tokens) THEN result
            ELSE IF tokens[k].offset = 0
            THEN loop(k + 1, Append(result, tokens[k].nextChar))
            ELSE loop(k + 1,
                      Append(repeat(result, Len(result) - tokens[k].offset, 0,
                                  tokens[k].length),
                             tokens[k].nextChar))
    IN  loop(1, <<>>)

\* four bytes a token: offset in sixteen bits, length in eight, the character
serializeTokens(tokens) ==
    LET RECURSIVE loop(_)
        loop(k) ==
            IF k > Len(tokens) THEN <<>>
            ELSE <<(tokens[k].offset \div 256) % 256, tokens[k].offset % 256,
                   tokens[k].length % 256, Ord(tokens[k].nextChar)>>
                     \o loop(k + 1)
    IN  loop(1)

deserializeTokens(data) ==
    LET RECURSIVE loop(_)
        loop(i) ==
            IF i < Len(data) THEN
                (IF i + 3 < Len(data)
                 THEN <<LZ77Token(data[i + 1] * 256 + data[i + 2], data[i + 3],
                                  Chr(data[i + 4]))>>
                 ELSE <<>>) \o loop(i + 4)
            ELSE <<>>
    IN  loop(0)

\* LZ77Compression::compress
lz77Compress(text) ==
    IF text = <<>> THEN <<>> ELSE serializeTokens(lz77Encode(text))

\* LZ77Compression::decompress
lz77Decompress(compressedData) ==
    IF compressedData = <<>> THEN <<>>
    ELSE lz77Decode(deserializeTokens(compressedData))

----------------------------------------------------------------------------
(* CompressionManager: huffman_ and lz77_ behind a one-byte algorithm header; *)
(* root_ is the tree of huffman_                                              *)

\* enum class Algorithm
HUFFMAN == 0

LZ77 == 1

AUTO == 2

\* HuffmanCompression::getCompressionRatio and LZ77Compression::getCompressionRatio:
\* the quotient compressed.size() / original.length() as a fraction
getCompressionRatio(original, compressed) ==
    IF original = <<>> THEN [num |-> 0, den |-> 1]
    ELSE [num |-> Len(compressed), den |-> Len(original)]

\* CompressionManager::analyzeCompression: every [root_, bestAlgorithm] the
\* call can leave
analyzeCompressionLarger(root_, text) ==
    LET less(a, b) == a.num * b.den < b.num * a.den
        best(huffmanCompressed, lz77Compressed) ==
            IF less(getCompressionRatio(text, lz77Compressed),
                    getCompressionRatio(text, huffmanCompressed))
            THEN HUFFMAN ELSE LZ77
    IN  {[root_ |-> h.root_, bestAlgorithm |-> best(h.data, lz77Compress(text))]
           : h \in huffmanCompress(root_, text)}
analyzeCompression(root_, text) ==
    LET less(a, b) == a.num * b.den < b.num * a.den
        best(huffmanCompressed, lz77Compressed) ==
            IF less(getCompressionRatio(text, huffmanCompressed),
                    getCompressionRatio(text, lz77Compressed))
            THEN HUFFMAN ELSE LZ77
    IN  {[root_ |-> h.root_, bestAlgorithm |-> best(h.data, lz77Compress(text))]
           : h \in huffmanCompress(root_, text)}

selectBestAlgorithm(root_, text) == analyzeCompression(root_, text)

addAlgorithmHeader(data, algorithm) == <<algorithm>> \o data

readAlgorithmHeader(data) == IF data = <<>> THEN HUFFMAN ELSE data[1]

\* CompressionManager::compress: every [root_, data] the call can leave
managerCompress(root_, text, algorithm) ==
    LET run(a) ==
            IF a.bestAlgorithm = HUFFMAN
            THEN {[root_ |-> h.root_, data |-> addAlgorithmHeader(h.data, HUFFMAN)]
                    : h \in huffmanCompress(a.root_, text)}
            ELSE IF a.bestAlgorithm = LZ77
            THEN {[root_ |-> a.root_,
                   data |-> addAlgorithmHeader(lz77Compress(text), LZ77)]}
            ELSE {[root_ |-> a.root_, data |-> addAlgorithmHeader(<<>>, a.bestAlgorithm)]}
    IN  UNION {run(a) : a \in IF algorithm = AUTO
                                THEN selectBestAlgorithm(root_, text)
                                ELSE {[root_ |-> root_, bestAlgorithm |-> algorithm]}}

\* CompressionManager::decompress, as [undefined, result]
managerDecompress(root_, data) ==
    IF data = <<>> THEN [undefined |-> FALSE, result |-> <<>>]
    ELSE LET dispatch(algorithm, compressedData) ==
                 IF algorithm = HUFFMAN THEN huffmanDecompress(root_, compressedData)
                 ELSE IF algorithm = LZ77
                 THEN [undefined |-> FALSE, result |-> lz77Decompress(compressedData)]
                 ELSE [undefined |-> FALSE, result |-> <<>>]
         IN  dispatch(readAlgorithmHeader(data), Tail(data))

----------------------------------------------------------------------------
(* SpecCodec: a text is compressed and decompressed by one codec object *)

CodecOnly == UNCHANGED <<treeVars, searchVars, editorVars, autosaveVars, nlpVars, shellVars>>

\* a fresh HuffmanCompression (root_ null) or LZ77Compression and a text
CodecInit ==
    codec \in {[text |-> t, phase |-> "start", root_ |-> <<>>, data |-> <<>>,
                out |-> <<>>, outcome |-> "returned", algorithm |-> 0]
                    : t \in CodecTexts}

\* what a call that went through a null pointer can do: stop the process, or
\* return any string
UndefinedOutcomes ==
    {[outcome |-> "crashed", out |-> <<>>]}
        \cup {[outcome |-> "returned", out |-> t] : t \in CodecTexts}

HuffmanCompressStep ==
    /\ codec.phase = "start"
    /\ \E r \in huffmanCompress(codec.root_, codec.text) :
           codec' = [codec EXCEPT !.phase = "huffman", !.root_ = r.root_,
                                  !.data = r.data]
    /\ CodecOnly

HuffmanDecompressStep ==
    /\ codec.phase = "huffman"
    /\ LET finish(r) ==
               \E o \in (IF r.undefined THEN UndefinedOutcomes
                         ELSE {[outcome |-> "returned", out |-> r.result]}) :
                   codec' = [codec EXCEPT !.phase = "huffmanDone",
                                          !.out = o.out, !.outcome = o.outcome]
       IN  finish(huffmanDecompress(codec.root_, codec.data))
    /\ CodecOnly

LZ77CompressStep ==
    /\ codec.phase = "start"
    /\ codec' = [codec EXCEPT !.phase = "lz77", !.data = lz77Compress(codec.text)]
    /\ CodecOnly

LZ77DecompressStep ==
    /\ codec.phase = "lz77"
    /\ codec' = [codec EXCEPT !.phase = "lz77Done",
                              !.out = lz77Decompress(codec.data)]
    /\ CodecOnly

ManagerCompressStep ==
    /\ codec.phase = "start"
    /\ \E algorithm \in {HUFFMAN, LZ77, AUTO} :
           \E r \in managerCompress(codec.root_, codec.text, algorithm) :
               codec' = [codec EXCEPT !.phase = "manager", !.root_ = r.root_,
                                      !.data = r.data, !.algorithm = algorithm]
    /\ CodecOnly

ManagerDecompressStep ==
    /\ codec.phase = "manager"
    /\ LET finish(r) ==
               \E o \in (IF r.undefined THEN UndefinedOutcomes
                         ELSE {[outcome |-> "returned", out |-> r.result]}) :
                   codec' = [codec EXCEPT !.phase = "managerDone",
                                          !.out = o.out, !.outcome = o.outcome]
       IN  finish(managerDecompress(codec.root_, codec.data))
    /\ CodecOnly

CodecNext ==
    \/ HuffmanCompressStep
    \/ HuffmanDecompressStep
    \/ LZ77CompressStep
    \/ LZ77DecompressStep
    \/ ManagerCompressStep
    \/ ManagerDecompressStep

CodecStart == TreeInit /\ SearchIdle /\ EditorIdle /\ CodecInit /\ AutoSaveIdle /\ NlpInit /\ ShellIdle

SpecCodec == CodecStart /\ [][CodecNext]_vars

----------------------------------------------------------------------------
(* Properties of the codecs *)

\* C12: HuffmanCompression::decompress(compress(text)) on one codec object
\* returns exactly text, also for a text of one distinct character and for
\* code bits that do not fill the last byte.
HuffmanRoundTrip ==
    codec.phase = "huffmanDone" =>
        codec.outcome = "returned" /\ codec.out = codec.text

\* C13: LZ77Compression::decompress(compress(text)) returns exactly text, also
\* when the last characters of text are covered by a match.
LZ77RoundTrip ==
    codec.phase = "lz77Done" => codec.out = codec.text

----------------------------------------------------------------------------
(* TextEditor auto-save: the calling thread, the worker thread and the files.
   Every action is one thread's step between two accesses to shared state;
   the threads interleave freely, since autoSaveEnabled_, stopAutoSave_ and
   the documents are plain members read and written without a lock. *)

\* a path is the list of the pieces it is concatenated from
Path(filename) == <<filename>>

\* doc->filename + ".autosave"
backupFilePrimary(filename) == Path(filename)
backupFile(filename) == Path(filename) \o <<".autosave">>

\* file.is_open() after std::ofstream file(filename): a file in a directory
\* that does not exist cannot be created
isOpen(path) == path[1] # "nodir/new.txt"

\* AVLTree::saveToFile: the file is created or truncated and the text written;
\* when the file cannot be created it throws and no file changes
saveToFile(t, path, files) ==
    IF ~isOpen(path) THEN files
    ELSE [p \in DOMAIN files \cup {path} |-> IF p = path THEN TextOf(t) ELSE files[p]]

\* TextEditor::saveDocument: [ed, files, ok]; ok is FALSE when saveToFile threw
saveDocument(ed, files) ==
    IF ~hasCurrentDocument(ed) THEN [ed |-> ed, files |-> files, ok |-> FALSE]
    ELSE IF ~isOpen(Path(currentDocument(ed).filename))
    THEN [ed |-> ed, files |-> files, ok |-> FALSE]
    ELSE [ed |-> [ed EXCEPT !.documents_[ed.currentDocumentIndex_ + 1].modified = FALSE],
          files |-> saveToFile(content(ed), Path(currentDocument(ed).filename), files),
          ok |-> TRUE]

saveAsDocument(ed, filename, files) ==
    IF ~hasCurrentDocument(ed) THEN [ed |-> ed, files |-> files, ok |-> FALSE]
    ELSE saveDocument([ed EXCEPT
                           !.documents_[ed.currentDocumentIndex_ + 1].filename = filename,
                           !.documents_[ed.currentDocumentIndex_ + 1].title = filename],
                      files)

\* autoSaveThread_.joinable()
joinable(a) == a.thread # "none"

\* enableAutoSave up to the join, or to its return when there is nothing to join
enableAutoSave(a) ==
    [a EXCEPT !.autoSaveEnabled_ = TRUE, !.stopAutoSave_ = FALSE,
              !.disabled = FALSE,
              !.main = IF joinable(a) THEN "enableJoin" ELSE "idle",
              !.thread = IF joinable(a) THEN @ ELSE "check"]

\* disableAutoSave that returns without joining the worker
disableAutoSaveNoJoin(a) ==
    [a EXCEPT !.stopAutoSave_ = TRUE, !.autoSaveEnabled_ = FALSE,
              !.main = "idle", !.disabled = TRUE]
\* disableAutoSave up to the join, or to its return when there is nothing to join
disableAutoSave(a) ==
    [a EXCEPT !.stopAutoSave_ = TRUE, !.autoSaveEnabled_ = FALSE,
              !.main = IF joinable(a) THEN "disableJoin" ELSE "idle",
              !.disabled = ~joinable(a)]

\* the places of performAutoSaveLoop and performAutoSave a running worker is at
Working == {"check", "sleep", "woke", "perform", "save"}

----------------------------------------------------------------------------
(* SpecAutoSave *)

AutoSaveOnly == UNCHANGED <<treeVars, searchVars, edCall, codecVars, nlpVars, shellVars>>

\* the calling thread is not inside enableAutoSave or disableAutoSave
MainIdle == autosave.main = "idle"

AsInsertTextStep ==
    /\ MainIdle /\ CanGrow(1)
    /\ editor' = insertText(editor, <<"a">>)
    /\ UNCHANGED autosave /\ AutoSaveOnly

AsSaved(r) ==
    /\ editor' = r.ed
    /\ autosave' = [autosave EXCEPT !.files = r.files]

AsSaveDocumentStep ==
    /\ MainIdle
    /\ AsSaved(saveDocument(editor, autosave.files))
    /\ AutoSaveOnly

AsSaveAsDocumentStep ==
    /\ MainIdle
    /\ AsSaved(saveAsDocument(editor, "notes.txt", autosave.files))
    /\ AutoSaveOnly

EnableAutoSaveStep ==
    /\ MainIdle
    /\ autosave' = enableAutoSave(autosave)
    /\ UNCHANGED editor /\ AutoSaveOnly

DisableAutoSaveStep ==
    /\ MainIdle
    /\ autosave' = disableAutoSave(autosave)
    /\ UNCHANGED editor /\ AutoSaveOnly

\* autoSaveThread_.join() returns: disableAutoSave returns, enableAutoSave
\* goes on to start the new thread
AutoSaveJoined ==
    /\ autosave.main \in {"enableJoin", "disableJoin"} /\ autosave.thread = "done"
    /\ autosave' = IF autosave.main = "disableJoin"
                   THEN [autosave EXCEPT !.main = "idle", !.thread = "none",
                                         !.disabled = TRUE]
                   ELSE [autosave EXCEPT !.main = "idle", !.thread = "check"]
    /\ UNCHANGED editor /\ AutoSaveOnly

\* while (!stopAutoSave_ && autoSaveEnabled_)
WorkerCheck ==
    /\ autosave.thread = "check"
    /\ autosave' = [autosave EXCEPT !.thread =
                        IF ~autosave.stopAutoSave_ /\ autosave.autoSaveEnabled_
                        THEN "sleep" ELSE "done"]
    /\ UNCHANGED editor /\ AutoSaveOnly

\* sleep_for(autoSaveInterval_) is over
WorkerWake ==
    /\ autosave.thread = "sleep"
    /\ autosave' = [autosave EXCEPT !.thread = "woke"]
    /\ UNCHANGED editor /\ AutoSaveOnly

\* if (!stopAutoSave_) performAutoSave();
WorkerTick ==
    /\ autosave.thread = "woke"
    /\ autosave' = [autosave EXCEPT !.thread =
                        IF ~autosave.stopAutoSave_ THEN "perform" ELSE "check"]
    /\ UNCHANGED editor /\ AutoSaveOnly

\* performAutoSave: if (doc && doc->modified) backupFile = ...
WorkerPerformAutoSave ==
    /\ autosave.thread = "perform"
    /\ autosave' =
           IF hasCurrentDocument(editor) /\ currentDocument(editor).modified
           THEN [autosave EXCEPT !.thread = "save",
                     !.backupFile = backupFile(currentDocument(editor).filename)]
           ELSE [autosave EXCEPT !.thread = "check"]
    /\ UNCHANGED editor /\ AutoSaveOnly

\* performAutoSave: doc->content->saveToFile(backupFile)
WorkerSave ==
    /\ autosave.thread = "save"
    /\ autosave' = [autosave EXCEPT !.thread = "check",
                        !.files = saveToFile(content(editor), autosave.backupFile,
                                             autosave.files)]
    /\ UNCHANGED editor /\ AutoSaveOnly

AutoSaveNext ==
    \/ AsInsertTextStep
    \/ AsSaveDocumentStep
    \/ AsSaveAsDocumentStep
    \/ EnableAutoSaveStep
    \/ DisableAutoSaveStep
    \/ AutoSaveJoined
    \/ WorkerCheck
    \/ WorkerWake
    \/ WorkerTick
    \/ WorkerPerformAutoSave
    \/ WorkerSave

AutoSaveStart == TreeInit /\ SearchIdle /\ EditorInit /\ CodecIdle /\ AutoSaveIdle /\ NlpInit /\ ShellIdle

SpecAutoSave == AutoSaveStart /\ [][AutoSaveNext]_vars

----------------------------------------------------------------------------
(* Properties of auto-save *)

\* the files whose path ends in ".autosave"
Sidecars(files) ==
    [p \in {q \in DOMAIN files : q[Len(q)] = ".autosave"} |-> files[p]]

\* the files whose path does not end in ".autosave"
Primaries(files) ==
    [p \in {q \in DOMAIN files : q[Len(q)] # ".autosave"} |-> files[p]]

\* C14: when disableAutoSave has returned the worker thread has terminated,
\* and no '.autosave' file is written from that return until enableAutoSave
\* is called again.
DisableStopsWorker ==
    /\ [](autosave.disabled => autosave.thread = "none")
    /\ [][autosave.disabled /\ autosave'.disabled =>
              Sidecars(autosave'.files) = Sidecars(autosave.files)]_vars

\* disableAutoSave has returned after the worker wrote a sidecar, and the
\* document is modified again
DisabledAfterBackup ==
    /\ autosave.disabled /\ autosave.main = "idle"
    /\ DOMAIN Sidecars(autosave.files) # {}
    /\ currentDocument(editor).modified

\* C15: a step of the worker writes only '<filename>.autosave', the text of
\* the active document, and only in a tick that found the document modified;
\* it changes no primary file, no filename and no modified flag.
AutoSaveWritesOnlySidecar ==
    [][autosave.thread \in Working /\ autosave'.thread # autosave.thread =>
          /\ editor' = editor
          /\ Primaries(autosave'.files) = Primaries(autosave.files)
          /\ autosave'.thread = "save" =>
                /\ currentDocument(editor).modified
                /\ autosave'.backupFile =
                       Path(currentDocument(editor).filename) \o <<".autosave">>
          /\ autosave'.files # autosave.files =>
                /\ autosave.thread = "save"
                /\ autosave'.files =
                       saveToFile(content(editor), autosave.backupFile,
                                  autosave.files)
                /\ autosave.backupFile[Len(autosave.backupFile)] = ".autosave"]_vars

\* the sidecar holds the modified text while the primary file still holds the
\* text of the last saveDocument
SidecarBesidePrimary ==
    /\ Path("notes.txt") \in DOMAIN autosave.files
    /\ backupFile("notes.txt") \in DOMAIN autosave.files
    /\ autosave.files[Path("notes.txt")] = <<>>
    /\ autosave.files[backupFile("notes.txt")] = <<"a">>
    /\ autosave.thread = "check"

----------------------------------------------------------------------------
(* SpecSelect: typing, cursor keys and a selection in one document *)

SelMaxSize == 2         \* longest document text
SelMaxHist == 4         \* snapshots on the undo stack of the document

SelAlphabet == {"a", "b"}

SelectNext ==
    \* TextEditor::insertText
    \/ \E c \in SelAlphabet :
           /\ Len(content(editor).undoStack_) < SelMaxHist
           /\ getSize(content(editor)) < SelMaxSize \/ hasSelection(editor)
           /\ editor' = insertText(editor, <<c>>)
           /\ edCall' = [op |-> "insertText", text |-> <<c>>, outcome |-> "returned"]
           /\ EditorOnly
    \* TextEditor::moveCursorLeft
    \/ /\ editor' = moveCursorLeft(editor)
       /\ edCall' = PlainCall
       /\ EditorOnly
    \* TextEditor::moveCursorRight
    \/ /\ editor' = moveCursorRight(editor)
       /\ edCall' = PlainCall
       /\ EditorOnly
    \* TextEditor::startSelection
    \/ /\ editor' = startSelection(editor)
       /\ edCall' = PlainCall
       /\ EditorOnly
    \* TextEditor::endSelection
    \/ /\ editor' = endSelection(editor)
       /\ edCall' = PlainCall
       /\ EditorOnly

SpecSelect == EditorStart /\ [][SelectNext]_vars

\* C16: insertText(t) over a selection [s, e) made by startSelection, cursor
\* movement and endSelection leaves old[0, s) + t + old[e, end), the cursor at
\* s + |t| and no selection.
InsertReplacesSelection ==
    [][edCall'.op = "insertText" /\ hasSelection(editor) /\ ~editor.isSelecting_ =>
          /\ TextOf(content(editor')) =
                 SubSeq(TextOf(content(editor)), 1, editor.selectionStart_)
                     \o edCall'.text
                     \o SubstrFrom(TextOf(content(editor)), editor.selectionEnd_)
          /\ editor'.cursorPosition_ = editor.selectionStart_ + Len(edCall'.text)
          /\ ~hasSelection(editor')]_vars

\* C17: openDocument on a path that cannot be opened returns false, raises
\* nothing, and leaves the documents, the active index, the cursor and the
\* selection as they were.
FailedOpenChangesNothing ==
    [][edCall'.op = "openDocument" /\ edCall'.filename \notin DOMAIN Disk =>
          /\ edCall'.outcome = "returned" /\ ~edCall'.ok
          /\ editor' = editor]_vars

\* a failed open with a selection in the active one of two documents
FailedOpenKeepsDocument ==
    /\ edCall.op = "openDocument" /\ edCall.filename = "missing.txt" /\ ~edCall.ok
    /\ Len(editor.documents_) = 2 /\ editor.currentDocumentIndex_ = 1
    /\ editor.cursorPosition_ = 1
    /\ editor.selectionStart_ = 0 /\ editor.selectionEnd_ = 1


----------------------------------------------------------------------------
(* SpecHistory: enough edits of one tree for its undo stack to fill up *)

HistMaxNodes == 53      \* fragments the tree may hold before an insert
HistSlack == 1          \* undo and redo start this close to a full history

\* the two stacks together hold nearly HistoryLimit snapshots
HistoryNearlyFull ==
    Len(tree.undoStack_) + Len(tree.redoStack_) >= HistoryLimit - HistSlack

HistoryNext ==
    \* AVLTree::insert
    \/ /\ Len(tree.heap) < HistMaxNodes
       /\ tree' = insert(tree, 0, <<"a">>)
       /\ lastCall' = [op |-> "insert", ok |-> TRUE]
       /\ TreeOnly /\ Unobserved
    \* AVLTree::erase
    \/ /\ Len(tree.undoStack_) >= HistoryLimit
       /\ tree' = erase(tree, 0, 1)
       /\ lastCall' = [op |-> "erase", ok |-> TRUE]
       /\ TreeOnly /\ Unobserved
    \* AVLTree::undo
    \/ /\ HistoryNearlyFull
       /\ tree' = undo(tree).t
       /\ lastCall' = [op |-> "undo", ok |-> undo(tree).ok]
       /\ TreeOnly /\ Unobserved
    \* AVLTree::redo
    \/ /\ HistoryNearlyFull
       /\ tree' = redo(tree).t
       /\ lastCall' = [op |-> "redo", ok |-> redo(tree).ok]
       /\ TreeOnly /\ Unobserved

SpecHistory == TreeStart /\ [][HistoryNext]_vars

\* C18: the undo stack never holds more than 50 snapshots after an operation,
\* and a push that takes it past 50 cuts it down to exactly 25.
UndoStackTrimmedTo25 ==
    /\ [](Len(tree.undoStack_) <= HistoryLimit)
    /\ [][/\ lastCall'.op \in {"insert", "erase"}
          /\ tree.root_ # NULL
          /\ Len(tree.undoStack_) = HistoryLimit
          => Len(tree'.undoStack_) = HistoryKeep]_vars

\* C19: an insert of non-empty text or an erase of positive length empties the
\* redo stack, it stays empty until an undo, and redo on the empty stack
\* returns false and changes neither the text nor the undo stack.  (Every
\* insert and erase of SpecTree has a non-empty text or a positive length.)
RedoEmptyAfterEdit ==
    [][/\ lastCall'.op \in {"insert", "erase"} => tree'.redoStack_ = <<>>
       /\ lastCall'.op # "undo" /\ tree.redoStack_ = <<>> => tree'.redoStack_ = <<>>
       /\ lastCall'.op = "redo" /\ tree.redoStack_ = <<>> =>
              /\ ~lastCall'.ok
              /\ TextOf(tree') = TextOf(tree)
              /\ tree'.undoStack_ = tree.undoStack_]_vars

\* redo was refused although earlier edits are on the undo stack
RedoRefusedAfterEdit ==
    /\ lastCall.op = "redo" /\ ~lastCall.ok
    /\ Len(tree.undoStack_) = TreeMaxHist
    /\ tree.redoStack_ = <<>>

\* C20: every splice of replaceAll, going from the last match to the first,
\* takes out a substring equal to pattern.
ReplaceAllSplicesPattern ==
    search.replaced # <<>> =>
        \A k \in 1..Len(search.replaced[1].removed) :
            search.replaced[1].removed[k] = search.pattern

----------------------------------------------------------------------------
(* SpecWords: wholeWordSearch over texts of word and non-word characters *)

WordAlphabet == {"a", "_", " "}

WordsInit ==
    \E text \in StringsUpTo(WordAlphabet, WordMaxText),
       pattern \in StringsUpTo(WordAlphabet, WordMaxPattern) :
        search = [text |-> text, pattern |-> pattern, ran |-> {},
                  kmp |-> <<>>, boyerMoore |-> <<>>, rabinKarp |-> <<>>,
                  replaced |-> <<>>, wholeWord |-> <<>>]

SearchWholeWord ==
    /\ "wholeWord" \notin search.ran
    /\ search' = [search EXCEPT
                      !.wholeWord = wholeWordSearch(search.text, search.pattern),
                      !.ran = @ \cup {"wholeWord"}]
    /\ SearchOnly

WordsNext ==
    \/ SearchKmp
    \/ SearchWholeWord

WordsStart == TreeInit /\ WordsInit /\ EditorIdle /\ CodecIdle /\ AutoSaveIdle /\ NlpInit /\ ShellIdle

SpecWords == WordsStart /\ [][WordsNext]_vars

\* C21: wholeWordSearch returns exactly the kmpSearch matches whose left
\* neighbour is the start of the text or no word character and whose right
\* neighbour is the end of the text or no word character.
WholeWordNeighbours ==
    "wholeWord" \in search.ran =>
        LET text == search.text
            whole(pos) ==
                /\ pos = 0 \/ ~IsWordChar(text[pos])
                /\ pos + Len(search.pattern) = Len(text)
                      \/ ~IsWordChar(text[pos + Len(search.pattern) + 1])
        IN  search.wholeWord = SelectSeq(kmpSearch(text, search.pattern), whole)

----------------------------------------------------------------------------
\* C22: an erase whose range reaches past the end of the text leaves the size
\* unchanged, and an erase that covers exactly the text empties it.
EraseBeyondEndKeepsSize ==
    [][callInfo'.op = "erase" =>
          /\ callInfo'.position + callInfo'.length > getSize(tree) =>
                 getSize(tree') = getSize(tree)
          /\ callInfo'.position = 0 /\ callInfo'.length = getSize(tree) =>
                 getSize(tree') = 0 /\ TextOf(tree') = <<>>]_vars

----------------------------------------------------------------------------
\* C23: moveCursorDown() from line l < line count at 0-based column c returns
\* with the cursor on line l+1 at column min(c, length of line l+1);
\* moveCursorUp() from line l > 1 returns with the cursor on line l-1 at column
\* min(c, length of line l-1); on the last (first) line the cursor stays.
VerticalMoveKeepsColumn ==
    [][LET text == TextOf(content(editor))
           lineOf(p) == 1 + Cardinality({k \in 1..p : text[k] = Newline})
           startOf(l) == CHOOSE p \in 0..Len(text) :
                             lineOf(p) = l /\ (p = 0 \/ text[p] = Newline)
           lengthOf(l) == Cardinality({p \in 1..Len(text) :
                                           lineOf(p) = l /\ text[p] # Newline})
           line == lineOf(editor.cursorPosition_)
           column == editor.cursorPosition_ - startOf(line)
           arrives(l) == /\ edCall'.outcome = "returned"
                         /\ editor'.cursorPosition_ = startOf(l) + Min(column, lengthOf(l))
           stays == /\ edCall'.outcome = "returned"
                    /\ editor'.cursorPosition_ = editor.cursorPosition_
       IN  /\ (edCall'.op = "moveCursorDown" /\ hasCurrentDocument(editor)) =>
                  IF line < getLineCount(editor) THEN arrives(line + 1) ELSE stays
           /\ (edCall'.op = "moveCursorUp" /\ hasCurrentDocument(editor)) =>
                  IF line > 1 THEN arrives(line - 1) ELSE stays]_vars

----------------------------------------------------------------------------
\* C24: the first byte of CompressionManager::compress(text, algorithm) names
\* the concrete codec (never AUTO) that produced the remaining bytes, the one
\* asked for unless AUTO was asked; decompress decodes the remaining bytes with
\* exactly that codec; under AUTO the codec named is one whose output is not
\* longer than the other codec's output.
HeaderNamesTheCodec ==
    LET named == codec.data[1]
        payload == Tail(codec.data)
        huffmanOutputs == {h.data : h \in huffmanCompress(<<>>, codec.text)}
        lz77Output == lz77Compress(codec.text)
        decoded(r) == IF r.undefined THEN [outcome |-> codec.outcome, out |-> codec.out] \in UndefinedOutcomes
                      ELSE codec.outcome = "returned" /\ codec.out = r.result
    IN  codec.phase \in {"manager", "managerDone"} =>
            /\ codec.data # <<>>
            /\ named \in {HUFFMAN, LZ77}
            /\ codec.algorithm # AUTO => named = codec.algorithm
            /\ named = HUFFMAN => payload \in huffmanOutputs
            /\ named = LZ77 => payload = lz77Output
            /\ (codec.algorithm = AUTO /\ named = HUFFMAN) =>
                   Len(payload) <= Len(lz77Output)
            /\ (codec.algorithm = AUTO /\ named = LZ77) =>
                   \A h \in huffmanOutputs : Len(payload) <= Len(h)
            /\ (codec.phase = "managerDone" /\ named = HUFFMAN) =>
                   decoded(huffmanDecompress(codec.root_, payload))
            /\ (codec.phase = "managerDone" /\ named = LZ77) =>
                   decoded([undefined |-> FALSE, result |-> lz77Decompress(payload)])

\* AUTO was asked for a text that is not empty, the header names a codec and
\* the bytes have been decompressed
AutoPickedACodec ==
    /\ codec.phase = "managerDone"
    /\ codec.algorithm = AUTO
    /\ codec.text # <<>>
    /\ codec.data[1] \in {HUFFMAN, LZ77}
    /\ Len(codec.data) > 1

----------------------------------------------------------------------------
(* NLPClient: every capability posts one request; the service is outside the *)
(* program and answers each request with one of NlpReplies                    *)

NlpMaxCalls == 2        \* processText calls in one run

NlpTexts == {<<"a">>, <<"a", "_", "1">>}

\* enableGrammar, enableSummarization, enableNER, enableSentiment, enableReadability
NlpFlags == {<<TRUE, TRUE, TRUE, TRUE, TRUE>>, <<TRUE, TRUE, TRUE, TRUE, FALSE>>}

\* a double that was never assigned holds any value
NlpScores == {0, 1}

\* no answer, or a body that is no JSON or holds a field of the wrong type
\* (ok = FALSE); a JSON object without any of the fields read; one with all
NlpReplies ==
    {[ok |-> ok, fields |-> fields, corrected_text |-> <<"b">>, errors |-> <<"x">>,
      suggestions |-> <<"y">>, summary |-> <<"s">>, entities |-> <<"e">>,
      sentiment |-> "positive", confidence |-> 1, flesch_kincaid |-> 1,
      recommendations |-> <<"r">>]
        : ok \in BOOLEAN,
          fields \in {{}, {"corrected_text", "errors", "suggestions", "summary",
                           "entities", "sentiment", "confidence", "scores",
                           "recommendations"}}}

\* json.contains(name) ? json[name] : the member's default
Parsed(json, name, value, default) == IF name \in json.fields THEN value ELSE default

parseGrammarResponse(json) ==
    [corrected_text |-> Parsed(json, "corrected_text", json.corrected_text, <<>>),
     errors |-> Parsed(json, "errors", json.errors, <<>>),
     suggestions |-> Parsed(json, "suggestions", json.suggestions, <<>>)]

checkGrammar(connected_, text, reply) ==
    IF ~connected_ \/ ~reply.ok
    THEN [corrected_text |-> <<>>, errors |-> <<>>, suggestions |-> <<>>]
    ELSE parseGrammarResponse(reply)

correctGrammar(connected_, text, reply) ==
    IF ~connected_ \/ ~reply.ok THEN text
    ELSE Parsed(reply, "corrected_text", reply.corrected_text, text)

\* of each response, the members NLPIntegrationManager reads
summarize(connected_, text, reply) ==
    IF ~connected_ \/ ~reply.ok THEN [summary |-> <<>>]
    ELSE [summary |-> Parsed(reply, "summary", reply.summary, <<>>)]

extractEntities(connected_, text, reply) ==
    IF ~connected_ \/ ~reply.ok THEN [entities |-> <<>>]
    ELSE [entities |-> Parsed(reply, "entities", reply.entities, <<>>)]

\* confidence in halves: 1 stands for 0.5
analyzeSentiment(connected_, text, reply) ==
    IF ~connected_ \/ ~reply.ok THEN [sentiment |-> "neutral", confidence |-> 1]
    ELSE [sentiment |-> Parsed(reply, "sentiment", reply.sentiment, ""),
          confidence |-> Parsed(reply, "confidence", reply.confidence, 0)]

\* scores holds flesch_kincaid or nothing
analyzeReadability(connected_, text, reply) ==
    IF ~connected_ \/ ~reply.ok THEN [scores |-> <<>>, recommendations |-> <<>>]
    ELSE [scores |-> Parsed(reply, "scores", <<reply.flesch_kincaid>>, <<>>),
          recommendations |-> Parsed(reply, "recommendations", reply.recommendations, <<>>)]

NlpOnly == UNCHANGED <<treeVars, searchVars, editorVars, codecVars, autosaveVars, shellVars>>

\* the record of a capability call on the NLPClient
Asked(op, text, reply, response) ==
    nlp' = [nlp EXCEPT !.call = [op |-> op, text |-> text,
                                 connected |-> nlp.client.connected_,
                                 ok |-> reply.ok, response |-> response]]

ClientNext ==
    \* NLPClient::connect
    \/ \E healthy \in BOOLEAN :
           /\ nlp' = [nlp EXCEPT !.client.connected_ = healthy,
                                 !.call = [op |-> "connect"]]
           /\ NlpOnly
    \* NLPClient::disconnect
    \/ /\ nlp' = [nlp EXCEPT !.client.connected_ = FALSE,
                             !.call = [op |-> "disconnect"]]
       /\ NlpOnly
    \* NLPClient::checkGrammar
    \/ \E text \in NlpTexts \cup {<<>>}, autoCorrect \in BOOLEAN, reply \in NlpReplies :
           /\ nlp' = [nlp EXCEPT !.call =
                          [op |-> "checkGrammar", text |-> text,
                           autoCorrect |-> autoCorrect,
                           connected |-> nlp.client.connected_, ok |-> reply.ok,
                           response |-> checkGrammar(nlp.client.connected_, text, reply)]]
           /\ NlpOnly
    \* NLPClient::correctGrammar
    \/ \E text \in NlpTexts \cup {<<>>}, reply \in NlpReplies :
           /\ Asked("correctGrammar", text, reply,
                    [corrected_text |-> correctGrammar(nlp.client.connected_, text, reply)])
           /\ NlpOnly
    \* NLPClient::summarize
    \/ \E text \in NlpTexts \cup {<<>>}, reply \in NlpReplies :
           /\ Asked("summarize", text, reply,
                    summarize(nlp.client.connected_, text, reply))
           /\ NlpOnly
    \* NLPClient::extractEntities
    \/ \E text \in NlpTexts \cup {<<>>}, reply \in NlpReplies :
           /\ Asked("extractEntities", text, reply,
                    extractEntities(nlp.client.connected_, text, reply))
           /\ NlpOnly
    \* NLPClient::analyzeSentiment
    \/ \E text \in NlpTexts \cup {<<>>}, reply \in NlpReplies :
           /\ Asked("analyzeSentiment", text, reply,
                    analyzeSentiment(nlp.client.connected_, text, reply))
           /\ NlpOnly
    \* NLPClient::analyzeReadability
    \/ \E text \in NlpTexts \cup {<<>>}, reply \in NlpReplies :
           /\ Asked("analyzeReadability", text, reply,
                    analyzeReadability(nlp.client.connected_, text, reply))
           /\ NlpOnly

NlpStart == TreeInit /\ SearchIdle /\ EditorIdle /\ CodecIdle /\ AutoSaveIdle /\ NlpInit /\ ShellIdle

SpecClient == NlpStart /\ [][ClientNext]_vars

\* C25: when the NLP client is not connected, checkGrammar(text) returns the
\* input text as corrected text, with no errors and no suggestions.
CheckGrammarEchoesWhenOffline ==
    (nlp.call.op = "checkGrammar" /\ ~nlp.call.connected) =>
        /\ nlp.call.response.corrected_text = nlp.call.text
        /\ nlp.call.response.errors = <<>>
        /\ nlp.call.response.suggestions = <<>>

----------------------------------------------------------------------------
(* NLPIntegrationManager: client_ is null (<<>>) or the NLPClient it made;    *)
(* cache_ is the set of its [key, result] entries                              *)

\* a bool written to the ostringstream
Bit(b) == IF b THEN "1" ELSE "0"

generateCacheKey(text, grammar, summary, ner, sentiment, readability) ==
    text \o <<"_", Bit(grammar), "_", Bit(summary), "_", Bit(ner),
              "_", Bit(sentiment), "_", Bit(readability)>>

getFromCache(cache_, key) == {e.result : e \in {c \in cache_ : c.key = key}}

addToCache(cache_, key, result) ==
    {c \in cache_ : c.key # key} \cup {[key |-> key, result |-> result]}

initialize(m, healthy) ==
    [m EXCEPT !.client_ = <<[connected_ |-> healthy]>>, !.initialized_ = healthy]

shutdown(m) ==
    [m EXCEPT !.client_ = IF @ = <<>> THEN @ ELSE <<[connected_ |-> FALSE]>>,
              !.initialized_ = FALSE]

enableCaching(m, enable) == [m EXCEPT !.cachingEnabled_ = enable]

isServiceAvailable(m) ==
    m.initialized_ /\ m.client_ # <<>> /\ m.client_[1].connected_

\* NLPIntegrationManager::processText with the five flags in f: the manager
\* after the call, the record returned and the number of calls on client_;
\* score is what the unassigned readability_score of a new record holds
processText(m, text, f, reply, score) ==
    LET result == [original_text |-> text, corrected_text |-> <<>>,
                   summary |-> <<>>, keywords |-> <<>>, entities |-> <<>>,
                   sentiment |-> "", readability_score |-> score,
                   suggestions |-> <<>>]
        cacheKey == generateCacheKey(text, f[1], f[2], f[3], f[4], f[5])
        scoreOf(readability) ==
            IF readability.scores # <<>> THEN readability.scores[1] ELSE 0
        piped(connected_) ==
            [result EXCEPT
                !.corrected_text = IF f[1] THEN correctGrammar(connected_, text, reply)
                                   ELSE text,
                !.summary = IF f[2] THEN summarize(connected_, text, reply).summary ELSE @,
                !.entities = IF f[3] THEN extractEntities(connected_, text, reply).entities
                             ELSE @,
                !.sentiment = IF f[4] THEN analyzeSentiment(connected_, text, reply).sentiment
                              ELSE @,
                !.readability_score =
                    IF f[5] THEN scoreOf(analyzeReadability(connected_, text, reply)) ELSE @,
                !.suggestions =
                    IF f[5] THEN analyzeReadability(connected_, text, reply).recommendations
                    ELSE @]
        stored(r) == [m |-> IF m.cachingEnabled_
                            THEN [m EXCEPT !.cache_ = addToCache(@, cacheKey, r)]
                            ELSE m,
                      result |-> r,
                      requests |-> Cardinality({k \in 1..5 : f[k]})]
        cached == IF m.cachingEnabled_ THEN getFromCache(m.cache_, cacheKey) ELSE {}
    IN  IF cached # {}
        THEN [m |-> m, result |-> CHOOSE r \in cached : TRUE, requests |-> 0]
        ELSE IF ~m.initialized_ \/ m.client_ = <<>>
        THEN [m |-> m, result |-> result, requests |-> 0]
        ELSE stored(piped(m.client_[1].connected_))

NlpNext ==
    \* NLPIntegrationManager::initialize
    \/ \E healthy \in BOOLEAN :
           /\ nlp' = initialize(nlp, healthy)
           /\ NlpOnly
    \* NLPIntegrationManager::shutdown
    \/ /\ nlp' = shutdown(nlp)
       /\ NlpOnly
    \* NLPIntegrationManager::enableCaching
    \/ \E enable \in BOOLEAN :
           /\ nlp' = enableCaching(nlp, enable)
           /\ NlpOnly
    \* NLPIntegrationManager::processText
    \/ \E text \in NlpTexts, f \in NlpFlags, reply \in NlpReplies, score \in NlpScores :
           /\ Len(nlp.log) < NlpMaxCalls
           /\ LET done(r) ==
                      [r.m EXCEPT !.log = Append(@,
                          [text |-> text, flags |-> f,
                           caching |-> nlp.cachingEnabled_,
                           initialized |-> nlp.initialized_,
                           available |-> isServiceAvailable(nlp) /\ reply.ok,
                           result |-> r.result, requests |-> r.requests])]
              IN  nlp' = done(processText(nlp, text, f, reply, score))
           /\ NlpOnly

SpecNlp == NlpStart /\ [][NlpNext]_vars

\* C26: with caching enabled, a processText call whose text and
\* flags equal those of an earlier processText call returns the record of the
\* earlier call and calls nothing on the client; calls that differ in the text
\* or in a flag never share a cache entry.
CachedCallRepeats ==
    \A i, j \in 1..Len(nlp.log) :
        LET a == nlp.log[i]
            b == nlp.log[j]
            key(c) == generateCacheKey(c.text, c.flags[1], c.flags[2], c.flags[3],
                                       c.flags[4], c.flags[5])
        IN  /\ (i < j /\ a.caching /\ b.caching /\ a.text = b.text /\ a.flags = b.flags) =>
                   b.result = a.result /\ b.requests = 0
            /\ (a.text # b.text \/ a.flags # b.flags) => key(a) # key(b)

\* C27: when the manager is not initialized or the service is unavailable,
\* processText returns a record whose original_text and corrected_text are the
\* input text and whose summary, entities and suggestions are empty.
PassThroughWhenUnavailable ==
    \A i \in 1..Len(nlp.log) :
        LET c == nlp.log[i]
        IN  (~c.initialized \/ ~c.available) =>
                /\ c.result.original_text = c.text
                /\ c.result.corrected_text = c.text
                /\ c.result.summary = <<>>
                /\ c.result.entities = <<>>
                /\ c.result.suggestions = <<>>

----------------------------------------------------------------------------
(* The interactive shells: SimpleUI (one line per turn, messages written
   at once), BetterUI (one line per turn, a status and an error message
   shown once and cleared) and ImprovedUI (raw single bytes, a ':' command
   mode).  A turn is one pass of the loop of run(): the display functions,
   then handleInput.  What read() and std::getline deliver is an input of
   the turn.  A std::string the shell builds is the sequence of its pieces;
   a file name typed at a prompt is one piece, a name typed byte by byte in
   command mode is one piece per byte.

   A command makes at most one call into the TextEditor (testEditor makes
   four in a row, taken as one).  Each handler is written as an operator of
   the fields u of the shell, of what the turn read, and of the answer r of
   the editor call; it yields [req |-> the call it makes, u |-> the fields
   after the command].  The call itself is made in one place, callEditor. *)

ShellMaxCommand == 1    \* longest commandBuffer_ in SpecShell
CommandMaxLength == 3   \* longest commandBuffer_ in SpecCommand
ShellMaxSize == 1       \* an editing turn starts from a document shorter than this
ShellMaxDocs == 2       \* an editing turn starts from fewer open documents than this
ShellMaxHist == 1       \* an editing turn starts from an undo stack shallower than this

ShellKinds == {"simple", "better", "improved"}

\* read() returned 0 or -1: no byte is waiting
NoKey == "none"

\* the bytes a terminal in raw mode delivers
ShellKeys == {":", "w", " ", "\n"}

\* the value of a byte
KeyCode(c) ==
    CASE c = "\n" -> 10
      [] c = "\r" -> 13
      [] c = "BS" -> 8
      [] c = "ESC" -> 27
      [] c = " " -> 32
      [] c = ":" -> 58
      [] c = "w" -> 119
      [] c = "x" -> 120
      [] c = "z" -> 122
      [] c = "DEL" -> 127

\* the lines std::getline delivers at the command prompt
ShellLines ==
    {<<>>, <<"q">>, <<"h">>, <<"o">>, <<"s">>, <<"n">>, <<"w">>, <<"i">>, <<"u">>,
     <<"z">>, <<"z", "q">>}

\* text is what was typed at a prompt for a number; valid and value are what
\* std::stoi and operator>> make of it
Typed(text, valid, value) == [text |-> text, valid |-> valid, value |-> value]

\* what std::getline delivers at the prompts of one command: a text, a
\* second text, a file name and a number
ShellInputs ==
    {[text |-> <<>>, text2 |-> <<>>, filename |-> "", number |-> Typed("", FALSE, 0)],
     [text |-> <<"x">>, text2 |-> <<>>, filename |-> "notes.txt",
      number |-> Typed("1", TRUE, 1)],
     [text |-> <<"x">>, text2 |-> <<"x">>, filename |-> "new.txt",
      number |-> Typed("2", TRUE, 2)],
     [text |-> <<>>, text2 |-> <<"x">>, filename |-> "new.txt",
      number |-> Typed("z", FALSE, 0)]}

\* the text testEditor inserts; digit is '1' in SimpleUI and '3' elsewhere
SampleText(digit) ==
    <<
       "H", "e", "l", "l", "o", ",", " ", "W", "o", "r", "l", "d",
       "!", "\n", "T", "h", "i", "s", " ", "i", "s", " ", "a", " ",
       "t", "e", "s", "t", " ", "l", "i", "n", "e", ".", "\n", "L",
       "i", "n", "e", " "
    >> \o <<digit>> \o <<
       ":", " ", "M", "o", "r", "e", " ", "t", "e", "x", "t", " ",
       "h", "e", "r", "e", "."
    >>
\* the files on disk when the shell starts
DiskFiles == [p \in {Path(name) : name \in DOMAIN Disk} |-> Disk[p[1]]]

\* the constructors of SimpleUI, BetterUI and ImprovedUI, and setTextEditor;
\* out is what the command of the turn wrote to std::cout
NewShell(kind) ==
    [kind |-> kind, phase |-> "constructed", running_ |-> FALSE,
     currentFile_ |-> <<"untitled.txt">>,
     statusMessage_ |-> <<>>, errorMessage_ |-> <<>>, showMenu_ |-> FALSE,
     inCommandMode_ |-> FALSE, commandBuffer_ |-> <<>>,
     searchTerm_ |-> <<>>, searchResults_ |-> <<>>, currentSearchIndex_ |-> -1,
     searchActive_ |-> FALSE,
     cinGood |-> TRUE, files |-> DiskFiles, out |-> <<>>,
     call |-> [op |-> "none"], outcome |-> "returned"]

ShellInit ==
    /\ \E kind \in ShellKinds : shell = NewShell(kind)
    /\ editor = NewTextEditor
    /\ edCall = PlainCall

ShellOnly == UNCHANGED <<treeVars, searchVars, edCall, codecVars, autosaveVars, nlpVars>>

\* TextEditor::openDocument reading the files the shell has written so far
openDocumentFrom(ed, filename, files) ==
    IF Path(filename) \in DOMAIN files
    THEN LET doc == Document(filename, loadFromFile(files[Path(filename)]))
             docs == Append(ed.documents_, doc)
         IN [ed |-> clearSelection([ed EXCEPT !.documents_ = docs,
                                              !.currentDocumentIndex_ = Len(docs) - 1,
                                              !.cursorPosition_ = 0]),
             ok |-> TRUE]
    ELSE [ed |-> ed, ok |-> FALSE]

\* a call into the editor: the member function and its arguments
EditorCall(op, text, text2, number, filename) ==
    [op |-> op, text |-> text, text2 |-> text2, number |-> number, filename |-> filename]

Call(op) == EditorCall(op, <<>>, <<>>, 0, "")

\* the editor and the files after a call, the bool or the vector it returned,
\* and "hung" or "overflow" when it did not return
Answer(ed, files, ok, results, outcome) ==
    [ed |-> ed, files |-> files, ok |-> ok, results |-> results, outcome |-> outcome]

callEditor(ed, files, req) ==
    LET plain(e) == Answer(e, files, TRUE, <<>>, "returned")
        filed(x) == Answer(x.ed, x.files, x.ok, <<>>, "returned")
        opened(x) == Answer(x.ed, files, x.ok, <<>>, "returned")
        found(x) == Answer(ed, files, TRUE, x.results, IF x.hung THEN "hung" ELSE "returned")
        replaced(x) == Answer(x.ed, files, TRUE, <<>>, IF x.hung THEN "hung" ELSE "returned")
        moved(x) ==
            Answer(x.ed, files, TRUE, <<>>, IF x.overflow THEN "overflow" ELSE "returned")
        tested(e, x) ==
            Answer(IF x.hung THEN e ELSE editorRedo(editorUndo(e)), files, TRUE, x.results,
                   IF x.hung THEN "hung" ELSE "returned")
        testing(e) == tested(e, findText(e, <<"t", "e", "s", "t">>, FALSE))
    IN  CASE req.op = "none" -> plain(ed)
          [] req.op = "insertText" -> plain(insertText(ed, req.text))
          [] req.op = "deleteText" -> plain(deleteText(ed, req.number))
          [] req.op = "undo" -> plain(editorUndo(ed))
          [] req.op = "redo" -> plain(editorRedo(ed))
          [] req.op = "newDocument" -> plain(newDocument(ed))
          [] req.op = "findText" -> found(findText(ed, req.text, FALSE))
          [] req.op = "replaceText" -> replaced(replaceText(ed, req.text, req.text2, TRUE))
          [] req.op = "moveCursorToLine" -> moved(moveCursorToLine(ed, req.number))
          [] req.op = "openDocument" -> opened(openDocumentFrom(ed, req.filename, files))
          [] req.op = "saveDocument" -> filed(saveDocument(ed, files))
          [] req.op = "saveAsDocument" -> filed(saveAsDocument(ed, req.filename, files))
          [] req.op = "testEditor" -> testing(insertText(ed, req.text))

\* what a command does: the call it makes and the fields of the shell after it
Does(req, u) == [req |-> req, u |-> u]

showMessage(u, msg) == [u EXCEPT !.statusMessage_ = msg]

\* showError that writes the status message
showErrorAsMessage(u, error) == [u EXCEPT !.statusMessage_ = error]
showError(u, error) == [u EXCEPT !.errorMessage_ = error]

\* what displayStatusBar of BetterUI and ImprovedUI writes after the line
\* and column (ImprovedUI cuts the line it writes to the screen width)
statusBar(u) == [status |-> u.statusMessage_, error |-> u.errorMessage_]

\* each message is written once and cleared
displayStatusBar(u) ==
    [u EXCEPT !.out = <<>>, !.statusMessage_ = <<>>, !.errorMessage_ = <<>>]

\* BetterUI::openFile and ImprovedUI::openFile; filename is what getInput returned
openFile(u, filename, r) ==
    IF filename = "" THEN Does(Call("none"), u)
    ELSE Does(EditorCall("openDocument", <<>>, <<>>, 0, filename),
              IF r.ok
              THEN showMessage([u EXCEPT !.currentFile_ = <<filename>>],
                               <<"Opened: ", filename>>)
              ELSE showError(u, <<"Failed to open: ", filename>>))

saveFile(u, r) ==
    Does(Call("saveDocument"),
         IF r.ok THEN showMessage(u, <<"File saved: ">> \o u.currentFile_)
         ELSE showError(u, <<"Failed to save file">>))

saveAsFile(u, filename, r) ==
    IF filename = "" THEN Does(Call("none"), u)
    ELSE Does(EditorCall("saveAsDocument", <<>>, <<>>, 0, filename),
              IF r.ok
              THEN showMessage([u EXCEPT !.currentFile_ = <<filename>>],
                               <<"Saved as: ", filename>>)
              ELSE showError(u, <<"Failed to save as: ", filename>>))

newFile(u) ==
    Does(Call("newDocument"),
         showMessage([u EXCEPT !.currentFile_ = <<"untitled.txt">>],
                     <<"New document created">>))

----------------------------------------------------------------------------
(* ImprovedUI *)

handleKeyPress(u, c, in, r) ==
    LET insertChar(ch) ==
            Does(EditorCall("insertText", <<ch>>, <<>>, 0, ""),
                 showMessage(u, <<"Character inserted">>))
        deleteChar ==
            Does(EditorCall("deleteText", <<>>, <<>>, 1, ""),
                 showMessage(u, <<"Character deleted">>))
        moveToLine(line) ==
            Does(EditorCall("moveCursorToLine", <<>>, <<>>, line - 1, ""),
                 showMessage(u, <<"Moved to line ", ToString(line)>>))
        searchText(term) ==
            IF term = <<>> THEN Does(Call("none"), u)
            ELSE Does(EditorCall("findText", term, <<>>, 0, ""),
                      showMessage([u EXCEPT !.searchTerm_ = term,
                                            !.searchResults_ = r.results,
                                            !.currentSearchIndex_ = 0,
                                            !.searchActive_ = TRUE],
                                  IF r.results = <<>>
                                  THEN <<"No matches found for: ">> \o term
                                  ELSE <<"Found ", ToString(Len(r.results)), " matches">>))
        replaceWith(find, replace) ==
            IF find = <<>> THEN Does(Call("none"), u)
            ELSE Does(EditorCall("replaceText", find, replace, 0, ""),
                      showMessage(u, <<"Replace completed">>))
        testEditor ==
            Does(EditorCall("testEditor", SampleText("3"), <<>>, 0, ""),
                 showMessage(u, <<"Redo test completed">>))
    IN  IF c = NoKey THEN Does(Call("none"), u)
        ELSE CASE c = "q" -> Does(Call("none"), [u EXCEPT !.running_ = FALSE])
               [] c = "h" -> Does(Call("none"), [u EXCEPT !.showMenu_ = ~u.showMenu_])
               [] c = ":" -> Does(Call("none"),
                                  showMessage([u EXCEPT !.inCommandMode_ = TRUE,
                                                        !.commandBuffer_ = <<>>],
                                              <<"Enter command:">>))
               [] c = "o" -> openFile(u, in.filename, r)
               [] c = "s" -> saveFile(u, r)
               [] c = "n" -> newFile(u)
               [] c = "w" -> saveAsFile(u, in.filename, r)
               [] c = "i" -> insertChar(" ")
               [] c = "d" -> deleteChar
               [] c = "u" -> Does(Call("undo"), showMessage(u, <<"Undo performed">>))
               [] c = "r" -> Does(Call("redo"), showMessage(u, <<"Redo performed">>))
               [] c = "/" -> searchText(in.text)
               [] c = "?" -> replaceWith(in.text, in.text2)
               [] c = "g" -> moveToLine(1)
               [] c = "t" -> testEditor
               [] c = "c" -> Does(Call("none"), u)
               [] c = "ESC" -> Does(Call("none"),
                                    IF u.showMenu_ THEN [u EXCEPT !.showMenu_ = FALSE] ELSE u)
               [] OTHER -> IF KeyCode(c) >= 32 /\ KeyCode(c) <= 126 THEN insertChar(c)
                           ELSE Does(Call("none"), u)

handleCommand(u, c, r) ==
    LET buffer == u.commandBuffer_
        left(d) ==
            Does(d.req, [d.u EXCEPT !.inCommandMode_ = FALSE, !.commandBuffer_ = <<>>])
        quit(d) == Does(d.req, [d.u EXCEPT !.running_ = FALSE])
        executed ==
            IF buffer = <<"q">> \/ buffer = <<"q", "u", "i", "t">>
            THEN quit(Does(Call("none"), u))
            ELSE IF buffer = <<"w">> \/ buffer = <<"w", "r", "i", "t", "e">>
            THEN saveFile(u, r)
            ELSE IF buffer = <<"w", "q">>
            THEN quit(saveFile(u, r))
            ELSE IF SubSeq(buffer, 1, Min(2, Len(buffer))) = <<"w", " ">>
            THEN saveFile([u EXCEPT !.currentFile_ = SubSeq(buffer, 3, Len(buffer))], r)
            ELSE Does(Call("none"), showError(u, <<"Unknown command: ">> \o buffer))
    IN  IF c = NoKey THEN Does(Call("none"), u)
        ELSE IF c = "\n" \/ c = "\r" THEN left(executed)
        ELSE IF KeyCode(c) = 27 THEN left(Does(Call("none"), u))
        ELSE IF KeyCode(c) = 127 \/ KeyCode(c) = 8
        THEN Does(Call("none"),
                  IF buffer # <<>>
                  THEN [u EXCEPT !.commandBuffer_ = SubSeq(buffer, 1, Len(buffer) - 1)]
                  ELSE u)
        ELSE IF KeyCode(c) >= 32 /\ KeyCode(c) <= 126
        THEN Does(Call("none"), [u EXCEPT !.commandBuffer_ = Append(buffer, c)])
        ELSE Does(Call("none"), u)

\* ImprovedUI::handleInput reads one byte, then handleCommand or
\* handleKeyPress reads the byte it works on
improvedHandleInput(u, first, second, in, r) ==
    IF first = NoKey THEN Does(Call("none"), u)
    ELSE IF u.inCommandMode_ THEN handleCommand(u, second, r)
    ELSE handleKeyPress(u, second, in, r)

----------------------------------------------------------------------------
(* BetterUI *)

\* in holds what getInput returns at each prompt of the command
processCommand(u, cmd, in, r) ==
    LET say(x, out) == [x EXCEPT !.out = x.out \o out]
        insertText_(text, what) ==
            IF text = <<>> THEN Does(Call("none"), u)
            ELSE Does(EditorCall("insertText", text, <<>>, 0, ""),
                      showMessage(u, <<what>> \o text))
        deleteText_(n) ==
            IF n.text = "" THEN Does(Call("none"), u)
            ELSE IF ~n.valid THEN Does(Call("none"), showError(u, <<"Invalid number">>))
            ELSE Does(EditorCall("deleteText", <<>>, <<>>, n.value, ""),
                      showMessage(u, <<"Deleted ", ToString(n.value), " characters">>))
        showSearchResults ==
            IF r.results = <<>> THEN showMessage(u, <<"No matches found">>)
            ELSE showMessage(say(u, <<"Found ", ToString(Len(r.results)),
                                      " matches at positions: ">>),
                             <<"Search completed">>)
        searchText(term) ==
            IF term = <<>> THEN Does(Call("none"), u)
            ELSE Does(EditorCall("findText", term, <<>>, 0, ""), showSearchResults)
        replaceWith(find, replace) ==
            IF find = <<>> THEN Does(Call("none"), u)
            ELSE Does(EditorCall("replaceText", find, replace, 0, ""),
                      showMessage(u, <<"Replace completed">>))
        goto(n) ==
            IF n.text = "" THEN Does(Call("none"), u)
            ELSE IF ~n.valid THEN Does(Call("none"), showError(u, <<"Invalid line number">>))
            ELSE Does(EditorCall("moveCursorToLine", <<>>, <<>>, n.value - 1, ""),
                      showMessage(u, <<"Moved to line ", ToString(n.value)>>))
        testEditor ==
            Does(EditorCall("testEditor", SampleText("3"), <<>>, 0, ""),
                 showMessage(u, <<"All tests completed successfully!">>))
        cmdChar == cmd[1]
    IN  IF cmd = <<>> THEN Does(Call("none"), u)
        ELSE CASE cmdChar \in {"q", "x"} -> Does(Call("none"), [u EXCEPT !.running_ = FALSE])
               [] cmdChar = "h" -> Does(Call("none"), [u EXCEPT !.showMenu_ = TRUE])
               [] cmdChar = "o" -> openFile(u, in.filename, r)
               [] cmdChar = "s" -> saveFile(u, r)
               [] cmdChar = "n" -> newFile(u)
               [] cmdChar = "w" -> saveAsFile(u, in.filename, r)
               [] cmdChar = "i" -> insertText_(in.text, "Text inserted: ")
               [] cmdChar = "d" -> deleteText_(in.number)
               [] cmdChar = "u" -> Does(Call("undo"), showMessage(u, <<"Undo performed">>))
               [] cmdChar = "r" -> Does(Call("redo"), showMessage(u, <<"Redo performed">>))
               [] cmdChar = "a" -> insertText_(in.text, "Text appended: ")
               [] cmdChar = "f" -> searchText(in.text)
               [] cmdChar = "F" -> replaceWith(in.text, in.text2)
               [] cmdChar = "g" -> goto(in.number)
               [] cmdChar = "c" -> Does(Call("none"), u)
               [] cmdChar = "t" -> testEditor
               [] OTHER -> Does(Call("none"), showError(u, <<"Unknown command: ">> \o cmd))

\* the display functions of one turn; displayMenu waits for a key and hides
\* the menu again
betterDisplay(u) ==
    LET menu(x) == IF x.showMenu_ THEN [x EXCEPT !.showMenu_ = FALSE] ELSE x
    IN menu(displayStatusBar(u))

betterHandleInput(u, input, in, r) ==
    IF input = <<>> THEN Does(Call("none"), u) ELSE processCommand(u, input, in, r)

----------------------------------------------------------------------------
(* SimpleUI.  It has no message members: what it has to say goes to
   std::cout during the command.  std::cin that failed to read a number
   stays failed, and every later std::getline leaves its string empty.     *)

showFileMenu(u, in, r) ==
    LET say(x, out) == [x EXCEPT !.out = x.out \o out]
        choice == in.number
    IN  IF ~choice.valid THEN Does(Call("none"), [u EXCEPT !.cinGood = FALSE])
        ELSE CASE choice.value = 1 ->
                    Does(EditorCall("openDocument", <<>>, <<>>, 0, in.filename),
                         IF r.ok
                         THEN say([u EXCEPT !.currentFile_ = <<in.filename>>],
                                  <<"File opened: ", in.filename>>)
                         ELSE say(u, <<"Failed to open file: ", in.filename>>))
               [] choice.value = 2 ->
                    Does(EditorCall("saveAsDocument", <<>>, <<>>, 0, in.filename),
                         IF r.ok
                         THEN say([u EXCEPT !.currentFile_ = <<in.filename>>],
                                  <<"File saved as: ", in.filename>>)
                         ELSE say(u, <<"Failed to save file: ", in.filename>>))
               [] choice.value = 3 -> Does(Call("none"), u)
               [] OTHER -> Does(Call("none"), say(u, <<"Invalid choice!">>))

simpleHandleInput(u, input, in, r) ==
    LET say(x, out) == [x EXCEPT !.out = x.out \o out]
        goto(n) ==
            IF ~n.valid THEN Does(Call("none"), [u EXCEPT !.cinGood = FALSE])
            ELSE Does(EditorCall("moveCursorToLine", <<>>, <<>>, n.value - 1, ""),
                      say(u, <<"Moved to line ", ToString(n.value)>>))
        cmd == input[1]
    IN  IF ~u.cinGood \/ input = <<>> THEN Does(Call("none"), u)
        ELSE CASE cmd \in {"q", "x"} -> Does(Call("none"), [u EXCEPT !.running_ = FALSE])
               [] cmd = "o" -> showFileMenu(u, in, r)
               [] cmd = "s" ->
                    Does(Call("saveDocument"),
                         IF r.ok THEN say(u, <<"File saved successfully!">>)
                         ELSE say(u, <<"Failed to save file!">>))
               [] cmd = "n" ->
                    Does(Call("newDocument"),
                         say([u EXCEPT !.currentFile_ = <<"untitled.txt">>],
                             <<"New document created.">>))
               [] cmd = "i" -> Does(EditorCall("insertText", in.text, <<>>, 0, ""),
                                    say(u, <<"Text inserted.">>))
               [] cmd = "d" -> Does(EditorCall("deleteText", <<>>, <<>>, 1, ""),
                                    say(u, <<"Character deleted.">>))
               [] cmd = "u" -> Does(Call("undo"), say(u, <<"Undo performed.">>))
               [] cmd = "r" -> Does(Call("redo"), say(u, <<"Redo performed.">>))
               [] cmd = "a" -> Does(EditorCall("insertText", in.text, <<>>, 0, ""),
                                    say(u, <<"Text appended.">>))
               [] cmd = "f" ->
                    Does(EditorCall("findText", in.text, <<>>, 0, ""),
                         say(u, <<"Found ", ToString(Len(r.results)),
                                  " matches at positions: ">>))
               [] cmd = "F" -> Does(EditorCall("replaceText", in.text, in.text2, 0, ""),
                                    say(u, <<"Replace operation completed.">>))
               [] cmd = "h" -> Does(Call("none"), u)
               [] cmd = "g" -> goto(in.number)
               [] cmd = "t" ->
                    Does(EditorCall("testEditor", SampleText("1"), <<>>, 0, ""),
                         say(u, <<"Search for 'test': ", ToString(Len(r.results)),
                                  " matches", "Test completed!">>))
               [] cmd = "c" -> Does(Call("none"), u)
               [] OTHER -> Does(Call("none"), say(u, <<"Unknown command: ", cmd>>))

\* displayStatus, displayText and displayMenu write the state and change nothing
simpleDisplay(u) == [u EXCEPT !.out = <<>>]

----------------------------------------------------------------------------
(* SpecShell: one shell and the editor it drives *)

\* an editing turn starts within the bounds of the model
ShellFits ==
    /\ Len(editor.documents_) < ShellMaxDocs
    /\ getSize(content(editor)) < ShellMaxSize
    /\ Len(content(editor).undoStack_) < ShellMaxHist

\* run() up to the loop
ShellRun ==
    /\ shell.phase = "constructed"
    /\ shell' = [shell EXCEPT !.running_ = TRUE, !.phase = "loop"]
    /\ UNCHANGED editor
    /\ ShellOnly

\* the display functions of one turn
display(u) ==
    CASE u.kind = "improved" -> displayStatusBar(u)
      [] u.kind = "better" -> betterDisplay(u)
      [] u.kind = "simple" -> simpleDisplay(u)

\* handleInput of the shell; first and second are the bytes the reads of
\* ImprovedUI deliver, input the line the other shells read
handleInput(u, first, second, input, in, r) ==
    CASE u.kind = "improved" -> improvedHandleInput(u, first, second, in, r)
      [] u.kind = "better" -> betterHandleInput(u, input, in, r)
      [] u.kind = "simple" -> simpleHandleInput(u, input, in, r)

\* what the turn read
Read(first, second, input) ==
    CASE shell.kind = "improved" /\ shell.inCommandMode_ ->
            [op |-> "command", read |-> first # NoKey,
             c |-> IF first = NoKey THEN NoKey ELSE second]
      [] shell.kind = "improved" /\ ~shell.inCommandMode_ ->
            [op |-> "keys", first |-> first,
             second |-> IF first = NoKey THEN NoKey ELSE second]
      [] shell.kind = "better" -> [op |-> "line", input |-> input]
      [] shell.kind = "simple" ->
            [op |-> "line", input |-> IF shell.cinGood THEN input ELSE <<>>]

\* one pass of the loop of run(); a byte is appended to a commandBuffer_
\* shorter than maxCommand only
ShellTurn(maxCommand) ==
    \E first, second \in IF shell.kind = "improved" THEN ShellKeys \cup {NoKey} ELSE {NoKey},
       input \in IF shell.kind = "improved" THEN {<<>>} ELSE ShellLines,
       in \in ShellInputs :
        /\ shell.phase = "loop"
        /\ shell.running_
        /\ shell.outcome = "returned"
        /\ shell.kind = "simple" => in.number.text # ""
        /\ (shell.kind = "improved" /\ shell.inCommandMode_ /\ second # NoKey)
               => (KeyCode(second) >= 32 /\ KeyCode(second) <= 126
                       => Len(shell.commandBuffer_) < maxCommand)
        /\ \E u \in {display(shell)} :
           \E req \in {handleInput(u, first, second, input, in,
                                   Answer(editor, shell.files, FALSE, <<>>, "returned")).req} :
           \E r \in {callEditor(editor, shell.files, req)} :
           \E done \in {IF r.outcome # "returned" THEN [u EXCEPT !.outcome = r.outcome]
                         ELSE handleInput(u, first, second, input, in, r).u} :
               /\ r.ed # editor => ShellFits
               /\ shell' = [done EXCEPT !.files = r.files,
                                        !.call = Read(first, second, input)]
               /\ editor' = r.ed
        /\ ShellOnly

\* the end of run(): cleanup() saves the current document
ShellCleanup ==
    /\ shell.phase = "loop"
    /\ ~shell.running_
    /\ LET saved(r) == /\ shell' = [shell EXCEPT !.files = r.files, !.phase = "cleaned",
                                                 !.call = [op |-> "cleanup"]]
                       /\ editor' = r.ed
       IN saved(saveDocument(editor, shell.files))
    /\ ShellOnly

ShellNext ==
    \/ ShellRun
    \/ ShellTurn(ShellMaxCommand)
    \/ ShellCleanup

ShellStart == TreeInit /\ SearchIdle /\ ShellInit /\ CodecIdle /\ AutoSaveIdle /\ NlpInit

SpecShell == ShellStart /\ [][ShellNext]_vars

\* SpecCommand: the same shells with room for a command and its argument
CommandNext ==
    \/ ShellRun
    \/ ShellTurn(CommandMaxLength)
    \/ ShellCleanup

SpecCommand == ShellStart /\ [][CommandNext]_vars


\* C28: in ImprovedUI outside command mode, every printable byte other than
\* ':' that standard input delivers is inserted into the document at the
\* cursor, exactly once and as itself: after the turn the text is the text
\* before it with the delivered printable bytes put in at the cursor.
TypedBytesAreInserted ==
    [][LET c == shell'.call
           typed(k) == k # NoKey /\ k # ":" /\ KeyCode(k) >= 32 /\ KeyCode(k) <= 126
           text == TextOf(content(editor))
           at == editor.cursorPosition_
       IN  c.op = "keys" =>
               /\ TextOf(content(editor')) =
                      SubSeq(text, 1, at) \o SelectSeq(<<c.first, c.second>>, typed)
                                          \o SubSeq(text, at + 1, Len(text))
               /\ Len(editor'.documents_) = Len(editor.documents_)
               /\ shell'.files = shell.files]_vars

\* C29: in ImprovedUI command mode, a newline after the command "w <name>"
\* writes the text of the current document to the file <name> and leaves
\* command mode with an empty command buffer.
WriteNameSavesAs ==
    [][LET c == shell'.call
           buffer == shell.commandBuffer_
           name == SubSeq(buffer, 3, Len(buffer))
       IN  (c.op = "command" /\ c.read /\ c.c = "\n"
                /\ Len(buffer) > 2 /\ SubSeq(buffer, 1, 2) = <<"w", " ">>) =>
               /\ name \in DOMAIN shell'.files
               /\ shell'.files[name] = TextOf(content(editor))
               /\ ~shell'.inCommandMode_
               /\ shell'.commandBuffer_ = <<>>]_vars

----------------------------------------------------------------------------
(* Undo after the history was trimmed *)

\* C35: undo after an insert or erase restores the text the tree had just
\* before that edit, also when the edit's saveState trimmed the undo stack:
\* the stack after the edit holds the most recent snapshots in their
\* original order, the root before the edit on top.
UndoStepsBackAfterTrim ==
    [][LET pushed == Append(tree.undoStack_, tree.root_)
           kept == Len(tree'.undoStack_)
       IN  /\ lastCall'.op \in {"insert", "erase"}
           /\ tree' # tree
           /\ tree.root_ # NULL
           => /\ undo(tree').ok
              /\ TextOf(undo(tree').t) = TextOf(tree)
              /\ kept <= Len(pushed)
              /\ tree'.undoStack_ = SubSeq(pushed, Len(pushed) - kept + 1, Len(pushed))]_vars

----------------------------------------------------------------------------
(* Closing a document other than the active one *)

\* C36: closeDocument(index) with a valid index other than the active one
\* leaves the same document active (the active index goes down by one when
\* the closed document stood before it), and the remaining documents keep
\* their text and modified flag.
CloseOtherKeepsActive ==
    [][\A index \in 0..DocsMax :
        LET active == editor.currentDocumentIndex_
            docs == editor.documents_
        IN  /\ edCall'.op = "closeDocument"
            /\ edCall'.ok
            /\ isValidDocumentIndex(editor, index)
            /\ index # active
            /\ editor' = closeDocument(editor, index).ed
            => /\ editor'.documents_ =
                      SubSeq(docs, 1, index) \o SubSeq(docs, index + 2, Len(docs))
               /\ editor'.documents_[editor'.currentDocumentIndex_ + 1] = docs[active + 1]
               /\ editor'.currentDocumentIndex_ =
                      IF index < active THEN active - 1 ELSE active]_vars

----------------------------------------------------------------------------
(* SpecFind: findText on a document with letters of both cases *)

FindMaxSize == 3        \* the longest document searched
FindMaxPattern == 2     \* the longest text inserted or searched for

FindAlphabet == {"a", "A"}

FindTexts == StringsUpTo(FindAlphabet, FindMaxPattern) \ {<<>>}

FindNext ==
    \* TextEditor::insertText
    \/ \E text \in FindTexts :
           /\ getSize(content(editor)) + Len(text) <= FindMaxSize
           /\ editor' = insertText(editor, text)
           /\ edCall' = PlainCall
           /\ EditorOnly
    \* TextEditor::moveCursorLeft
    \/ /\ editor' = moveCursorLeft(editor)
       /\ edCall' = PlainCall
       /\ EditorOnly
    \* TextEditor::findText
    \/ \E pattern \in FindTexts, caseSensitive \in BOOLEAN :
           /\ editor' = editor
           /\ edCall' = [Searched(pattern, findText(editor, pattern, caseSensitive))
                         EXCEPT !.op = IF caseSensitive THEN "findTextExact" ELSE "findText"]
           /\ EditorOnly

SpecFind == EditorStart /\ [][FindNext]_vars

\* C37: findText(pattern, false) returns offsets at which the pattern occurs
\* in the active document when letter case is disregarded, and leaves out no
\* such occurrence (each one is reported or overlaps a reported one);
\* findText(pattern, true) does the same for occurrences in exact case.
FindTextIgnoresCase ==
    LET text == TextOf(content(editor))
        res == edCall.results
        pattern == edCall.pattern
        folded(i) == /\ i + Len(pattern) <= Len(text)
                     /\ ToLower(Substr(text, i, Len(pattern))) = ToLower(pattern)
        reports(occurs(_)) ==
            /\ \A k \in 1..Len(res) : occurs(res[k])
            /\ \A i \in 0..Len(text) :
                   occurs(i) => \E k \in 1..Len(res) :
                                    /\ res[k] - i < Len(pattern)
                                    /\ i - res[k] < Len(pattern)
        exact(i) == OccursAt(text, pattern, i)
    IN  /\ edCall.op = "findText" => reports(folded)
        /\ edCall.op = "findTextExact" => reports(exact)

----------------------------------------------------------------------------
(* SpecSaveAs: saving one document under names that can and cannot be written *)

SaveMaxSize == 2        \* the longest document saved

SaveNames == {"notes.txt", "todo.txt", "nodir/new.txt"}

SaveOnly == UNCHANGED <<treeVars, searchVars, codecVars, nlpVars, shellVars>>

\* the editor, the files and the call record after a save gave r = [ed, files, ok]
Saved(op, r) ==
    /\ editor' = r.ed
    /\ autosave' = [autosave EXCEPT !.files = r.files]
    /\ edCall' = [op |-> op, outcome |-> "returned", ok |-> r.ok]

SaveNext ==
    \* TextEditor::insertText
    \/ /\ getSize(content(editor)) < SaveMaxSize
       /\ editor' = insertText(editor, <<"a">>)
       /\ edCall' = PlainCall
       /\ UNCHANGED autosave /\ SaveOnly
    \* TextEditor::saveDocument
    \/ /\ Saved("saveDocument", saveDocument(editor, autosave.files))
       /\ SaveOnly
    \* TextEditor::saveAsDocument
    \/ \E filename \in SaveNames :
           /\ Saved("saveAsDocument", saveAsDocument(editor, filename, autosave.files))
           /\ SaveOnly

SpecSaveAs == AutoSaveStart /\ [][SaveNext]_vars

\* C40: when saveAsDocument returns false because the file cannot be written,
\* the document keeps its filename, title and modified flag, and a
\* saveDocument after it writes the file the document had before.
FailedSaveAsKeepsName ==
    [][edCall'.op = "saveAsDocument" /\ ~edCall'.ok =>
          LET before == currentDocument(editor)
              after == currentDocument(editor')
              again == saveDocument(editor', autosave'.files)
          IN  /\ after.filename = before.filename
              /\ after.title = before.title
              /\ after.modified = before.modified
              /\ again = saveDocument(editor, autosave.files)]_vars

----------------------------------------------------------------------------
(* SpecAutoSaveFair: the worker thread and a pending join are scheduled *)

\* a step of the worker thread
WorkerNext == WorkerCheck \/ WorkerWake \/ WorkerTick \/ WorkerPerformAutoSave \/ WorkerSave

SpecAutoSaveFair ==
    /\ AutoSaveStart
    /\ [][AutoSaveNext]_vars
    /\ WF_vars(WorkerNext)
    /\ WF_vars(AutoSaveJoined)

\* C33: enableAutoSave always returns, also when a worker is already
\* running, and when it returns from joining the old worker one worker
\* thread is running.
EnableAutoSaveReturns ==
    /\ (autosave.main = "enableJoin") ~> (autosave.main = "idle")
    /\ [][autosave.main = "enableJoin" /\ autosave'.main = "idle"
              => autosave'.thread \in Working]_vars

----------------------------------------------------------------------------
(* SpecAutoSaveRace: the worker's saveToFile one member access at a time

   performAutoSave holds a plain Document pointer and inOrderTraversal reads
   root_, left, data and right of each node while the thread that owns the
   editor goes on editing; nothing orders the two.  autosave.walk is the
   recursion of inOrderTraversal, autosave.seen the texts the active
   document had since the tick took its pointer, autosave.dangling says that
   the Document the pointer names was destroyed, autosave.freed is what the
   freed memory held. *)

RaceMaxSize == 3        \* an insert starts from a document shorter than this
RaceMaxNodes == 3       \* and from a tree of fewer fragments than this
RaceMaxHist == 3        \* and from an undo stack shallower than this

RaceOnly == UNCHANGED <<treeVars, searchVars, edCall, codecVars, nlpVars, shellVars>>

\* the worker is between taking its Document pointer and closing the file
InTick == autosave.thread \in {"open", "walk"}

\* the thread that owns the editor made ed of it
Edited(ed) ==
    /\ autosave.thread # "crashed"
    /\ editor' = ed
    /\ autosave' = IF InTick
                   THEN [autosave EXCEPT !.seen = @ \cup {TextOf(content(ed))}]
                   ELSE autosave
    /\ RaceOnly

\* the thread that owns the editor closed the only document
Closed(r) ==
    /\ autosave.thread # "crashed"
    /\ editor' = r.ed
    /\ autosave' = IF InTick /\ r.ok /\ ~autosave.dangling
                   THEN [autosave EXCEPT !.seen = @ \cup {TextOf(content(r.ed))},
                                         !.dangling = TRUE,
                                         !.freed = content(editor)]
                   ELSE IF InTick
                   THEN [autosave EXCEPT !.seen = @ \cup {TextOf(content(r.ed))}]
                   ELSE autosave
    /\ RaceOnly

\* performAutoSave: doc = getCurrentDocument(); if (doc && doc->modified)
RacePerformAutoSave ==
    /\ autosave.thread = "perform"
    /\ autosave' =
           IF hasCurrentDocument(editor) /\ currentDocument(editor).modified
           THEN [autosave EXCEPT !.thread = "open",
                     !.backupFile = backupFile(currentDocument(editor).filename),
                     !.dangling = FALSE,
                     !.seen = {TextOf(content(editor))}]
           ELSE [autosave EXCEPT !.thread = "check"]
    /\ UNCHANGED editor /\ RaceOnly

\* the tree behind doc->content: the document's, or what the freed memory held
walked == IF autosave.dangling THEN autosave.freed ELSE content(editor)

\* the file after text was written to it
written(text) ==
    [autosave.files EXCEPT ![autosave.backupFile] = @ \o text]

\* a read through the pointer to a destroyed Document that does not find the
\* old contents: the thread dies, or bytes of something else reach the file
ReadFreed ==
    /\ InTick /\ autosave.dangling
    /\ \/ autosave' = [autosave EXCEPT !.thread = "crashed"]
       \/ /\ autosave.thread = "walk"
          /\ autosave' = [autosave EXCEPT !.thread = "check", !.walk = <<>>,
                                          !.dangling = FALSE, !.freed = EmptyTree,
                                          !.seen = {}, !.files = written(<<"?">>)]
    /\ UNCHANGED editor /\ RaceOnly

\* saveToFile: std::ofstream file(filename); inOrderTraversal(root_, ...)
RaceOpen ==
    /\ autosave.thread = "open"
    /\ autosave' = [autosave EXCEPT
                        !.thread = "walk",
                        !.files = saveToFile(EmptyTree, autosave.backupFile, @),
                        !.walk = IF walked.root_ = NULL THEN <<>>
                                 ELSE <<[node |-> walked.root_, at |-> "left"]>>]
    /\ UNCHANGED editor /\ RaceOnly

\* one member access of inOrderTraversal: node->left, node->data or
\* node->right of the call on top; with no call left saveToFile returns
RaceWalk ==
    /\ autosave.thread = "walk"
    /\ LET depth == Len(autosave.walk)
           top == autosave.walk[depth]
           node == walked.heap[top.node]
           below == SubSeq(autosave.walk, 1, depth - 1)
           entered(stack, child) ==
               IF child = NULL THEN stack
               ELSE Append(stack, [node |-> child, at |-> "left"])
       IN  autosave' =
               IF depth = 0
               THEN [autosave EXCEPT !.thread = "check", !.dangling = FALSE,
                                     !.freed = EmptyTree, !.seen = {}]
               ELSE IF top.at = "left"
               THEN [autosave EXCEPT !.walk =
                         entered(Append(below, [top EXCEPT !.at = "data"]), node.left)]
               ELSE IF top.at = "data"
               THEN [autosave EXCEPT !.walk = Append(below, [top EXCEPT !.at = "right"]),
                                     !.files = written(node.data)]
               ELSE [autosave EXCEPT !.walk = entered(below, node.right)]
    /\ UNCHANGED editor /\ RaceOnly

RaceNext ==
    \* TextEditor::enableAutoSave
    \/ /\ autosave.thread = "none"
       /\ EnableAutoSaveStep
    \* TextEditor::insertText
    \/ /\ getSize(content(editor)) < RaceMaxSize
       /\ Len(content(editor).heap) < RaceMaxNodes
       /\ Len(content(editor).undoStack_) < RaceMaxHist
       /\ Edited(insertText(editor, <<"a">>))
    \* TextEditor::moveCursorLeft
    \/ Edited(moveCursorLeft(editor))
    \* TextEditor::undo
    \/ Edited(editorUndo(editor))
    \* TextEditor::closeDocument
    \/ Closed(closeDocument(editor, 0))
    \/ WorkerCheck
    \/ WorkerWake
    \/ WorkerTick
    \/ RacePerformAutoSave
    \/ RaceOpen
    \/ RaceWalk
    \/ ReadFreed

SpecAutoSaveRace == AutoSaveStart /\ [][RaceNext]_vars

\* C34: the text a tick has written when it closes the sidecar is the
\* complete text the active document had at some instant of the tick,
\* whatever the editor's thread did meanwhile, and no step of the tick reads
\* through a pointer to a document that was destroyed.
SidecarIsOneState ==
    [][/\ (InTick /\ (autosave'.thread # autosave.thread \/ autosave'.walk # autosave.walk))
           => ~autosave.dangling
       /\ (autosave.thread = "walk" /\ autosave'.thread = "check")
           => autosave'.files[autosave.backupFile] \in autosave.seen]_vars

----------------------------------------------------------------------------
(* SpecTokens: LZ77Compression with its default window and look-ahead on
   runs of one character, short ones and ones long enough for a match to
   fill the look-ahead buffer *)

TokenShortRun == 12     \* the runs of 0..TokenShortRun characters are encoded
TokenLongRun == 769     \* and the runs of TokenLongRun - 3..TokenLongRun characters

TokenRuns == (0..TokenShortRun) \cup ((TokenLongRun - 3)..TokenLongRun)

TokenTexts ==
    {[k \in 1..n |-> "a"] \o tail : n \in TokenRuns, tail \in {<<>>, <<"b">>}}

TokensInit ==
    codec \in {[text |-> t, phase |-> "start", tokens |-> <<>>, data |-> <<>>,
                read |-> <<>>] : t \in TokenTexts}

\* LZ77Compression::encode
TokensEncode ==
    /\ codec.phase = "start"
    /\ codec' = [codec EXCEPT !.phase = "encoded", !.tokens = lz77Encode(codec.text)]
    /\ CodecOnly

\* LZ77Compression::serializeTokens
TokensSerialize ==
    /\ codec.phase = "encoded"
    /\ codec' = [codec EXCEPT !.phase = "packed", !.data = serializeTokens(codec.tokens)]
    /\ CodecOnly

\* LZ77Compression::deserializeTokens
TokensDeserialize ==
    /\ codec.phase = "packed"
    /\ codec' = [codec EXCEPT !.phase = "unpacked", !.read = deserializeTokens(codec.data)]
    /\ CodecOnly

TokensNext == TokensEncode \/ TokensSerialize \/ TokensDeserialize

TokensStart == TreeInit /\ SearchIdle /\ EditorIdle /\ TokensInit /\ AutoSaveIdle /\ NlpInit /\ ShellIdle

SpecTokens == TokensStart /\ [][TokensNext]_vars

\* C39: every token encode produces with the default parameters has a match
\* length in 0..255 and a back-offset in 0..65535, and the tokens read back
\* from the four-byte packing are the tokens that were packed.
TokensFitFourBytes ==
    /\ \A k \in 1..Len(codec.tokens) :
           /\ codec.tokens[k].length \in 0..255
           /\ codec.tokens[k].offset \in 0..65535
    /\ codec.phase = "unpacked" => codec.read = codec.tokens

----------------------------------------------------------------------------
(* SpecMain: main() of the BetterUI program, with and without a file name on
   the command line *)

\* argv[1], or "" when argc = 1
MainArgs == {"", "notes.txt", "todo.txt", "missing.txt"}

\* main up to ui->run(): the shell, the editor, and the file of the command line
MainInit ==
    \E arg \in MainArgs :
        /\ shell = NewShell("better")
        /\ editor = IF arg = "" THEN NewTextEditor
                    ELSE openDocumentFrom(NewTextEditor, arg, DiskFiles).ed
        /\ edCall = PlainCall

MainStart == TreeInit /\ SearchIdle /\ MainInit /\ CodecIdle /\ AutoSaveIdle /\ NlpInit

SpecMain == MainStart /\ [][ShellNext]_vars

\* C38: while the shell runs, the file name it shows in its header and in
\* "File saved: <name>" is the path saveDocument writes, the filename of the
\* editor's current document.
ShownNameIsSavedPath ==
    (shell.phase = "loop" /\ hasCurrentDocument(editor))
        => shell.currentFile_ = Path(currentDocument(editor).filename)

----------------------------------------------------------------------------
(* SpecPassword: PasswordManager::checkPasswordStrength on passwords made of
   a mixed head and a run of one character *)

PwMaxHead == 3          \* the longest mixed head of a password
PwMaxPad == 16          \* the longest run that follows the head

PwAlphabet == {"a", "A", "1", "!"}

\* <cctype> in the "C" locale
islower(c) ==
    c \in {"a", "b", "c", "d", "e", "f", "g", "h", "i", "j", "k", "l", "m",
           "n", "o", "p", "q", "r", "s", "t", "u", "v", "w", "x", "y", "z"}

isupper(c) ==
    c \in {"A", "B", "C", "D", "E", "F", "G", "H", "I", "J", "K", "L", "M",
           "N", "O", "P", "Q", "R", "S", "T", "U", "V", "W", "X", "Y", "Z"}

isdigit(c) == c \in {"0", "1", "2", "3", "4", "5", "6", "7", "8", "9"}

isalnum(c) == islower(c) \/ isupper(c) \/ isdigit(c)

\* the two length tests of a checker that has no third one
lengthScoreShort(password) ==
    (IF Len(password) >= 8 THEN 1 ELSE 0) + (IF Len(password) >= 12 THEN 1 ELSE 0)

\* the three length tests
lengthScore(password) ==
    (IF Len(password) >= 8 THEN 1 ELSE 0)
        + (IF Len(password) >= 12 THEN 1 ELSE 0)
        + (IF Len(password) >= 16 THEN 1 ELSE 0)

\* one pass of the loop over the characters
classify(has, c) ==
    IF islower(c) THEN [has EXCEPT !.hasLower = TRUE]
    ELSE IF isupper(c) THEN [has EXCEPT !.hasUpper = TRUE]
    ELSE IF isdigit(c) THEN [has EXCEPT !.hasDigit = TRUE]
    ELSE IF ~isalnum(c) THEN [has EXCEPT !.hasSpecial = TRUE]
    ELSE has

RECURSIVE classes(_, _, _)
classes(password, k, has) ==
    IF k > Len(password) THEN has
    ELSE classes(password, k + 1, classify(has, password[k]))

feedbackFor(score) ==
    IF score < 3
    THEN "Very weak password. Use at least 8 characters with mixed case, numbers, and symbols."
    ELSE IF score < 5 THEN "Weak password. Add more variety of characters."
    ELSE IF score < 7
    THEN "Moderate password. Consider making it longer or adding more complexity."
    ELSE "Strong password!"

checkPasswordStrength(password) ==
    LET has == classes(password, 1, [hasLower |-> FALSE, hasUpper |-> FALSE,
                                     hasDigit |-> FALSE, hasSpecial |-> FALSE])
        score == lengthScore(password)
                     + (IF has.hasLower THEN 1 ELSE 0)
                     + (IF has.hasUpper THEN 1 ELSE 0)
                     + (IF has.hasDigit THEN 1 ELSE 0)
                     + (IF has.hasSpecial THEN 1 ELSE 0)
    IN  [score |-> score, isStrong |-> score >= 6, feedback |-> feedbackFor(score)]

PwHeads == UNION {[1..n -> PwAlphabet] : n \in 0..PwMaxHead}

Passwords ==
    {head \o [k \in 1..n |-> c] : head \in PwHeads, n \in 0..PwMaxPad, c \in PwAlphabet}

PasswordInit ==
    codec \in {[text |-> p, phase |-> "start", strength |-> <<>>] : p \in Passwords}

PasswordCheck ==
    /\ codec.phase = "start"
    /\ codec' = [codec EXCEPT !.phase = "checked",
                              !.strength = checkPasswordStrength(codec.text)]
    /\ CodecOnly

PasswordNext == PasswordCheck

PasswordStart == TreeInit /\ SearchIdle /\ EditorIdle /\ PasswordInit /\ AutoSaveIdle /\ NlpInit /\ ShellIdle

SpecPassword == PasswordStart /\ [][PasswordNext]_vars

\* the criteria a password satisfies
Satisfied(password) ==
    LET some(is(_)) == \E k \in 1..Len(password) : is(password[k])
        special(c) == ~isalnum(c)
    IN  (IF Len(password) >= 8 THEN {"length 8"} ELSE {})
            \cup (IF Len(password) >= 12 THEN {"length 12"} ELSE {})
            \cup (IF Len(password) >= 16 THEN {"length 16"} ELSE {})
            \cup (IF some(islower) THEN {"lower"} ELSE {})
            \cup (IF some(isupper) THEN {"upper"} ELSE {})
            \cup (IF some(isdigit) THEN {"digit"} ELSE {})
            \cup (IF some(special) THEN {"special"} ELSE {})

\* C32: the score of a password is the number of criteria it satisfies among
\* length >= 8, >= 12, >= 16, a lowercase letter, an uppercase letter, a
\* digit and a non-alphanumeric character, so it lies in 0..7, and isStrong
\* holds exactly when the score is at least 6.
ScoreCountsCriteria ==
    codec.phase = "checked" =>
        /\ codec.strength.score = Cardinality(Satisfied(codec.text))
        /\ codec.strength.score \in 0..7
        /\ codec.strength.isStrong <=> codec.strength.score >= 6

\* a password of sixteen or more characters with all four classes was scored 7
FullScoreReached ==
    /\ codec.phase = "checked"
    /\ Len(codec.text) >= 16
    /\ codec.strength.score = 7
    /\ codec.strength.isStrong

----------------------------------------------------------------------------
(* SpecTerminal: ImprovedUI and the terminal on standard input.  The shell
   record holds the terminal next to the fields of the object: term is the
   termios of the device, fl the file status flags of descriptor 0, before
   what both were when the program started. *)

\* the local modes a terminal may have set when the program starts
LocalModes == {"ECHO", "ICANON", "ISIG", "IEXTEN"}

\* the file status flags descriptor 0 may have set
StatusFlags == {"O_NONBLOCK", "O_APPEND"}

Terminals ==
    [c_lflag : SUBSET LocalModes, VMIN : {0, 1}, VTIME : {0, 5}]

TerminalInit ==
    /\ \E term \in Terminals, fl \in SUBSET StatusFlags :
           shell = [kind |-> "improved", phase |-> "start", term |-> term, fl |-> fl,
                    before |-> [term |-> term, fl |-> fl], files |-> DiskFiles]
    /\ editor = NewTextEditor
    /\ edCall = PlainCall

\* ImprovedUI::setupTerminal
setupTerminal(u) ==
    IF u.terminalConfigured_ THEN u
    ELSE LET originalTermios_ == u.term
             raw == [originalTermios_ EXCEPT
                        !.c_lflag = @ \ {"ECHO", "ICANON", "ISIG"},
                        !.VMIN = 1, !.VTIME = 0]
             flags == u.fl
         IN  [u EXCEPT !.originalTermios_ = originalTermios_,
                       !.term = raw,
                       !.fl = flags \cup {"O_NONBLOCK"},
                       !.terminalConfigured_ = TRUE]

\* ImprovedUI::restoreTerminal
restoreTerminal(u) ==
    IF ~u.terminalConfigured_ THEN u
    ELSE [u EXCEPT !.term = u.originalTermios_, !.terminalConfigured_ = FALSE]

\* ImprovedUI::cleanup; the editor is set, as main sets it before run()
cleanup(u, ed) ==
    LET restored == restoreTerminal(u)
        r == saveDocument(ed, restored.files)
    IN  [u |-> [restored EXCEPT !.files = r.files], ed |-> r.ed]

\* ImprovedUI::ImprovedUI; the members it does not initialise hold the
\* terminal settings only after setupTerminal has read them
TerminalConstruct ==
    /\ shell.phase = "start"
    /\ shell' = setupTerminal([kind |-> "improved", phase |-> "constructed",
                               term |-> shell.term, fl |-> shell.fl,
                               before |-> shell.before, files |-> shell.files,
                               running_ |-> FALSE, terminalConfigured_ |-> FALSE,
                               originalTermios_ |-> shell.term])
    /\ UNCHANGED editor
    /\ ShellOnly

\* run() up to the loop
TerminalRun ==
    /\ shell.phase = "constructed"
    /\ shell' = [shell EXCEPT !.running_ = TRUE, !.phase = "loop"]
    /\ UNCHANGED editor
    /\ ShellOnly

\* a turn of the loop that types a character
TerminalType ==
    /\ shell.phase = "loop"
    /\ shell.running_
    /\ getSize(content(editor)) < ShellMaxSize
    /\ editor' = insertText(editor, <<"x">>)
    /\ UNCHANGED shell
    /\ ShellOnly

\* a turn of the loop that reads Ctrl+Q or executes :q
TerminalQuit ==
    /\ shell.phase = "loop"
    /\ shell.running_
    /\ shell' = [shell EXCEPT !.running_ = FALSE]
    /\ UNCHANGED editor
    /\ ShellOnly

\* the end of run()
TerminalCleanup ==
    /\ shell.phase = "loop"
    /\ ~shell.running_
    /\ \E c \in {cleanup(shell, editor)} :
           /\ shell' = [c.u EXCEPT !.phase = "cleaned"]
           /\ editor' = c.ed
    /\ ShellOnly

\* ImprovedUI::~ImprovedUI, after run() or without it
TerminalDestroy ==
    /\ shell.phase \in {"constructed", "cleaned"}
    /\ \E c \in {cleanup(shell, editor)} :
           /\ shell' = [c.u EXCEPT !.phase = "destroyed"]
           /\ editor' = c.ed
    /\ ShellOnly

TerminalNext ==
    \/ TerminalConstruct
    \/ TerminalRun
    \/ TerminalType
    \/ TerminalQuit
    \/ TerminalCleanup
    \/ TerminalDestroy

TerminalStart == TreeInit /\ SearchIdle /\ TerminalInit /\ CodecIdle /\ AutoSaveIdle /\ NlpInit

SpecTerminal == TerminalStart /\ [][TerminalNext]_vars

\* C31: after cleanup(), at the end of run() and again in the destructor, the
\* termios settings and the O_NONBLOCK flag of standard input are what they
\* were before the shell was constructed.
CleanupRestoresTerminal ==
    shell.phase \in {"cleaned", "destroyed"} =>
        /\ shell.term = shell.before.term
        /\ ("O_NONBLOCK" \in shell.fl) <=> ("O_NONBLOCK" \in shell.before.fl)

====
